---- MODULE Spec2Model ----
(***************************************************************************)
(* The spreadsheet import pipeline of ranch_tools                          *)
(* (database_management/services/file_import_service.py) over the Cow and  *)
(* PregCheck tables of preg_check/models.py.                               *)
(*                                                                         *)
(* Representation.  A cell of the parsed table is a set with at most one   *)
(* element: {} is pandas' NaN / Python's None, {v} a present value.  Text  *)
(* is a sequence of one-symbol strings, so that strip() and lower() are    *)
(* computed and not assumed; the symbols of a check_date text are a date   *)
(* lexeme ("D1", "D2"), a time-of-day lexeme ("T09"), a blank (" ") and    *)
(* an unparseable lexeme ("X").  A database table is the sequence of its   *)
(* rows in insertion order; a row's primary key is its position.           *)
(***************************************************************************)
EXTENDS Integers, Sequences, FiniteSets, TLC

VARIABLES
    db,        \* the committed database: [cows, pregchecks]
    tx,        \* the importing connection's view: [cows, pregchecks, needs_rollback]
    pc,        \* position of the import_from_file call
    file,      \* the uploaded file: [kind, columns, rows]
    dry_run,   \* the dry_run argument
    df,        \* the dataframe the stages pass along
    idx,       \* number of dataframe rows process_dataframe has iterated over
    stats,     \* self.stats: [cows_created, pregchecks_created, errors]
    result,    \* the exception the call raised, if any
    pre,       \* history: the committed database when the call started
    trace,     \* history: the stages the call has entered, in order
    writes,    \* history: INSERTs the call has attempted
    seen,      \* what a concurrent reader last read during the call, and whether the
               \* import's transaction then held uncommitted writes
    fs,        \* the database files on disk: [current, backup, temp]
    current_breeding_season,  \* the rows of the CurrentBreedingSeason table
    objects    \* the CurrentBreedingSeason instances held in memory

vars == <<db, tx, pc, file, dry_run, df, idx, stats, result, pre, trace, writes, seen,
          fs, current_breeding_season, objects>>

\* What the import and the reports leave alone
site == <<fs, current_breeding_season, objects>>

\* What the database file replacement and the season singleton leave alone
herd == <<db, tx, file, dry_run, df, idx, stats, pre, writes, seen>>

\* The current database file as it was before any upload, no backup, no upload;
\* an empty CurrentBreedingSeason table and no instance
InitSite ==
    /\ fs = [current |-> {"old"}, backup |-> {}, temp |-> {}]
    /\ current_breeding_season = {}
    /\ objects = <<>>

-----------------------------------------------------------------------------
(* Bounds of the model *)

MaxRows == 2
MaxStore == 3
MaxBatch == 7

-----------------------------------------------------------------------------
(* Cells and text *)

NaN == {}
Some(v) == {v}
notna(c) == c # {}
Val(c) == CHOOSE v \in c : TRUE

Txt1(a) == <<a>>
Txt2(a, b) == <<a, b>>

IsSpace(ch) == ch = " "

RECURSIVE lstrip(_)
lstrip(s) ==
    IF s # <<>> /\ IsSpace(Head(s)) THEN lstrip(Tail(s)) ELSE s

RECURSIVE rstrip(_)
rstrip(s) ==
    IF s # <<>> /\ IsSpace(s[Len(s)]) THEN rstrip(SubSeq(s, 1, Len(s) - 1)) ELSE s

strip(s) == rstrip(lstrip(s))

lower_char(ch) ==
    CASE ch = "T" -> "t"
      [] ch = "F" -> "f"
      [] ch = "P" -> "p"
      [] ch = "O" -> "o"
      [] ch = "A" -> "a"
      [] ch = "B" -> "b"
      [] ch = "X" -> "x"
      [] OTHER -> ch

lower(s) == [i \in 1..Len(s) |-> lower_char(s[i])]

\* Code points, for the ordering of text keys
ord(ch) ==
    CASE ch = " " -> 32
      [] ch = "7" -> 55
      [] ch = "8" -> 56
      [] ch = "A" -> 65
      [] ch = "B" -> 66
      [] OTHER -> 120

RECURSIVE TextLess(_, _)
TextLess(s, t) ==
    IF t = <<>> THEN FALSE
    ELSE IF s = <<>> THEN TRUE
    ELSE IF ord(Head(s)) # ord(Head(t)) THEN ord(Head(s)) < ord(Head(t))
    ELSE TextLess(Tail(s), Tail(t))

\* Python truthiness of a cleaned value
TruthyText(c) == notna(c) /\ Val(c) # <<>>
TruthyInt(c) == notna(c) /\ Val(c) # 0

\* pd.to_datetime(x).date(): the date lexeme of the text, the time of day dropped
Parseable(s) ==
    LET t == strip(s)
    IN /\ t # <<>>
       /\ Head(t) \in {"D1", "D2"}
       /\ \A i \in 2..Len(t) : t[i] = "T09"

to_date(s) == IF Head(strip(s)) = "D1" THEN 1 ELSE 2

-----------------------------------------------------------------------------
(* Exceptions and the dataframe *)

NoExc == [exc |-> "None", msg |-> "", detail |-> <<>>]
ValidationError(msg, detail) == [exc |-> "ValidationError", msg |-> msg, detail |-> detail]
ImportError(msg, detail) == [exc |-> "ImportError", msg |-> msg, detail |-> detail]

REQUIRED_COLUMNS ==
    <<"ear_tag_id", "birth_year", "eid", "breeding_season",
      "check_date", "comments", "is_pregnant", "recheck">>

RequiredSet == {REQUIRED_COLUMNS[i] : i \in 1..Len(REQUIRED_COLUMNS)}

\* Columns whose cells hold text; the others hold numbers or booleans
TextColumns == {"ear_tag_id", "eid", "check_date", "comments", "is_pregnant"}

\* Row numbers reported to the user: dataframe index (0-based) + 2
RowOffset == 2

\* The file kinds import_from_file reads
SupportedFormat(kind) == kind \in {"csv", "xlsx", "xls", "bytesio"}

FirstMissingOnly(columns) ==
    LET all == SelectSeq(REQUIRED_COLUMNS, LAMBDA c : c \notin columns)
    IN IF all = <<>> THEN <<>> ELSE <<Head(all)>>

\* assert_required_columns: the missing columns, in REQUIRED_COLUMNS order
missing_columns(columns) ==
    SelectSeq(REQUIRED_COLUMNS, LAMBDA c : c \notin columns)

\* remove_blank_rows._is_blank on the cell of column col
is_blank(col, c) ==
    \/ ~notna(c)
    \/ col \in TextColumns /\ strip(Val(c)) = <<>>

BlankRow(r) == \A col \in RequiredSet : is_blank(col, r[col])

KeepBlankRows(rows) == rows

\* remove_blank_rows after its column check: the non-blank rows, re-indexed
remove_blank_rows(rows) == SelectSeq(rows, LAMBDA r : ~BlankRow(r))

PregnantCodeUnknownIsFalse(c) ==
    IF ~notna(c) THEN NaN
    ELSE LET s == lower(strip(Val(c)))
         IN IF s \in {<<"t">>, <<"p">>} THEN Some(TRUE) ELSE Some(FALSE)

\* standardize_dataframe: strip, lower, then map the four codes; anything else is NaN
PregnantCode(c) ==
    IF ~notna(c) THEN NaN
    ELSE LET s == lower(strip(Val(c)))
         IN CASE s = <<"t">> -> Some(TRUE)
              [] s = <<"p">> -> Some(TRUE)
              [] s = <<"f">> -> Some(FALSE)
              [] s = <<"o">> -> Some(FALSE)
              [] OTHER -> NaN

standardize_rows(rows) ==
    [i \in 1..Len(rows) |-> [rows[i] EXCEPT !.is_pregnant = PregnantCode(@)]]

standardize_raises(rows) ==
    \E i \in 1..Len(rows) : ~notna(PregnantCode(rows[i].is_pregnant))

\* validate_dataframe, lines 122-126: the first required field with an empty value
FieldEmpty(rows, field) ==
    \E i \in 1..Len(rows) :
        \/ ~notna(rows[i][field])
        \/ field = "check_date" /\ strip(Val(rows[i][field])) = <<>>

CleanRowTagNotStripped(r) ==
    [ear_tag_id |-> r.ear_tag_id,
     birth_year |-> r.birth_year,
     eid        |-> IF notna(r.eid) THEN Some(strip(Val(r.eid))) ELSE NaN,
     check_date |-> IF notna(r.check_date) THEN Some(to_date(Val(r.check_date))) ELSE NaN]

\* validate_dataframe, lines 129-141: the cleaned copy used for duplicate checking
clean_row(r) ==
    [ear_tag_id |-> IF notna(r.ear_tag_id) THEN Some(strip(Val(r.ear_tag_id))) ELSE NaN,
     birth_year |-> r.birth_year,
     eid        |-> IF notna(r.eid) THEN Some(strip(Val(r.eid))) ELSE NaN,
     check_date |-> IF notna(r.check_date) THEN Some(to_date(Val(r.check_date))) ELSE NaN]

df_check_of(rows) == [i \in 1..Len(rows) |-> clean_row(rows[i])]

Unparseable(rows) ==
    \E i \in 1..Len(rows) : notna(rows[i].check_date) /\ ~Parseable(Val(rows[i].check_date))

\* Ascending sequence of the elements of S, `less` being the pairs <<x, y>> of S
\* with x before y
SortedSeq(S, less) ==
    [n \in 1..Cardinality(S) |->
        CHOOSE x \in S : Cardinality({y \in S : <<y, x>> \in less}) = n - 1]

\* The dataframe index values of the set I, ascending, as reported row numbers
RowNumbers(I) ==
    LET numbers == {i - 1 + RowOffset : i \in I}
    IN SortedSeq(numbers, {p \in numbers \X numbers : p[1] < p[2]})

EarTagKey(c) == <<Val(c.ear_tag_id), Val(c.birth_year), Val(c.check_date)>>

EarTagKeyLess(k, l) ==
    \/ TextLess(k[1], l[1])
    \/ k[1] = l[1] /\ k[2] < l[2]
    \/ k[1] = l[1] /\ k[2] = l[2] /\ k[3] < l[3]

\* _check_duplicates_by_ear_tag, lines 174-179: the rows that take part in the check
EarTagFiltered(df_check) ==
    {i \in 1..Len(df_check) :
        /\ notna(df_check[i].ear_tag_id)
        /\ Val(df_check[i].ear_tag_id) # <<>>
        /\ notna(df_check[i].birth_year)
        /\ notna(df_check[i].check_date)}

\* _check_duplicates_by_ear_tag: one entry per duplicated (ear_tag_id, birth_year, check_date)
check_duplicates_by_ear_tag(df_check) ==
    LET filtered == EarTagFiltered(df_check)
        duplicated == {i \in filtered :
                        \E j \in filtered \ {i} : EarTagKey(df_check[j]) = EarTagKey(df_check[i])}
        keys == {EarTagKey(df_check[i]) : i \in duplicated}
        groups == SortedSeq(keys, {p \in keys \X keys : EarTagKeyLess(p[1], p[2])})
    IN [g \in 1..Len(groups) |->
          [by   |-> "Ear Tag",
           key  |-> groups[g],
           rows |-> RowNumbers({i \in 1..Len(df_check) :
                        /\ df_check[i].ear_tag_id = Some(groups[g][1])
                        /\ df_check[i].birth_year = Some(groups[g][2])
                        /\ df_check[i].check_date = Some(groups[g][3])})]]

EidKey(c) == <<Val(c.eid), Val(c.check_date)>>

EidKeyLess(k, l) ==
    \/ TextLess(k[1], l[1])
    \/ k[1] = l[1] /\ k[2] < l[2]

EidFilteredNeedsBirthYear(df_check) ==
    {i \in 1..Len(df_check) :
        /\ notna(df_check[i].eid)
        /\ Val(df_check[i].eid) # <<>>
        /\ notna(df_check[i].birth_year)
        /\ notna(df_check[i].check_date)}

EidFilteredKeepsEmptyText(df_check) ==
    {i \in 1..Len(df_check) :
        /\ notna(df_check[i].eid)
        /\ notna(df_check[i].check_date)}

\* _check_duplicates_by_eid, lines 222-226: the rows that take part in the check
EidFiltered(df_check) ==
    {i \in 1..Len(df_check) :
        /\ notna(df_check[i].eid)
        /\ Val(df_check[i].eid) # <<>>
        /\ notna(df_check[i].check_date)}

\* _check_duplicates_by_eid: one entry per duplicated (eid, check_date)
check_duplicates_by_eid(df_check) ==
    LET filtered == EidFiltered(df_check)
        duplicated == {i \in filtered :
                        \E j \in filtered \ {i} : EidKey(df_check[j]) = EidKey(df_check[i])}
        keys == {EidKey(df_check[i]) : i \in duplicated}
        groups == SortedSeq(keys, {p \in keys \X keys : EidKeyLess(p[1], p[2])})
    IN [g \in 1..Len(groups) |->
          [by   |-> "EID",
           key  |-> groups[g],
           rows |-> RowNumbers({i \in 1..Len(df_check) :
                        /\ df_check[i].eid = Some(groups[g][1])
                        /\ df_check[i].check_date = Some(groups[g][2])})]]

CombineFirstOnly(ear_tag_duplicates, eid_duplicates) ==
    IF ear_tag_duplicates # <<>> THEN ear_tag_duplicates ELSE eid_duplicates

\* validate_dataframe, lines 149-153: both lists, ear-tag entries first
combine_duplicates(ear_tag_duplicates, eid_duplicates) ==
    ear_tag_duplicates \o eid_duplicates

ValidateAgainstStore(columns, rows) ==
    IF \E i \in 1..Len(rows), k \in 1..Len(db.pregchecks) :
           /\ notna(rows[i].check_date)
           /\ db.pregchecks[k].check_date = Some(to_date(Val(rows[i].check_date)))
    THEN ValidationError("Found duplicate records", [count |-> 1, entries |-> <<>>])
    ELSE IF missing_columns(columns) # <<>>
    THEN ValidationError("Missing required columns", missing_columns(columns))
    ELSE NoExc

\* validate_dataframe: the exception it raises on the rows it is given, or NoExc
validate_dataframe(columns, rows) ==
    IF missing_columns(columns) # <<>>
    THEN ValidationError("Missing required columns", missing_columns(columns))
    ELSE IF FieldEmpty(rows, "check_date")
    THEN ValidationError("Required field contains empty values", <<"check_date">>)
    ELSE IF FieldEmpty(rows, "is_pregnant")
    THEN ValidationError("Required field contains empty values", <<"is_pregnant">>)
    ELSE IF Unparseable(rows)
    THEN ImportError("Unexpected error during import", <<>>)
    ELSE LET df_check == df_check_of(rows)
             duplicates == combine_duplicates(check_duplicates_by_ear_tag(df_check),
                                              check_duplicates_by_eid(df_check))
         IN IF duplicates # <<>>
            THEN ValidationError("Found duplicate records",
                                 [count |-> Len(duplicates), entries |-> duplicates])
            ELSE NoExc

-----------------------------------------------------------------------------
(* The database: models.Cow, models.PregCheck and the ORM calls of process_row *)

NoUniqueConstraints(cows, cow) == FALSE

\* Cow's constraints: eid unique, (ear_tag_id, birth_year) unique together; a NULL
\* never collides in a unique index
UniqueViolation(cows, cow) ==
    \E i \in 1..Len(cows) :
        \/ notna(cow.eid) /\ cows[i].eid = cow.eid
        \/ /\ notna(cow.birth_year)
           /\ cows[i].ear_tag_id = cow.ear_tag_id
           /\ cows[i].birth_year = cow.birth_year

\* Cow.objects.get_or_create(**kwargs) on the connection state t, the lookup being
\* the fields `fields` of `cow`; a failed INSERT is undone by its savepoint
get_or_create(t, fields, cow) ==
    LET matches == {i \in 1..Len(t.cows) : \A f \in fields : t.cows[i][f] = cow[f]}
    IN IF t.needs_rollback
       THEN [tx |-> t, cow |-> NaN, created |-> FALSE,
             exc |-> "TransactionManagementError", inserts |-> 0]
       ELSE IF Cardinality(matches) = 1
       THEN [tx |-> t, cow |-> matches, created |-> FALSE, exc |-> "", inserts |-> 0]
       ELSE IF Cardinality(matches) > 1
       THEN [tx |-> t, cow |-> NaN, created |-> FALSE,
             exc |-> "MultipleObjectsReturned", inserts |-> 0]
       ELSE IF UniqueViolation(t.cows, cow)
       THEN [tx |-> t, cow |-> NaN, created |-> FALSE,
             exc |-> "IntegrityError", inserts |-> 1]
       ELSE [tx |-> [t EXCEPT !.cows = Append(@, cow)],
             cow |-> Some(Len(t.cows) + 1), created |-> TRUE, exc |-> "", inserts |-> 1]

extract_cow_data(row) ==
    [ear_tag_id |-> IF notna(row.ear_tag_id) THEN strip(Val(row.ear_tag_id)) ELSE <<>>,
     birth_year |-> row.birth_year,
     eid        |-> IF notna(row.eid) THEN Some(strip(Val(row.eid))) ELSE NaN]

BackfillsEid(t, cow_data) ==
    LET known == {i \in 1..Len(t.cows) :
                    /\ t.cows[i].ear_tag_id = cow_data.ear_tag_id
                    /\ t.cows[i].birth_year = cow_data.birth_year
                    /\ ~notna(t.cows[i].eid)}
        i == CHOOSE i \in known : TRUE
    IN IF TruthyText(cow_data.eid) /\ known # {} /\ ~t.needs_rollback
       THEN [tx |-> [t EXCEPT !.cows[i].eid = cow_data.eid],
             cow |-> Some(i), created |-> FALSE, exc |-> "", inserts |-> 1]
       ELSE IF TruthyText(cow_data.eid)
       THEN get_or_create(t, {"eid", "birth_year", "ear_tag_id"}, cow_data)
       ELSE IF cow_data.ear_tag_id # <<>> /\ TruthyInt(cow_data.birth_year)
       THEN get_or_create(t, {"ear_tag_id", "birth_year"}, [cow_data EXCEPT !.eid = NaN])
       ELSE [tx |-> t, cow |-> NaN, created |-> FALSE, exc |-> "", inserts |-> 0]

MatchOnEidAlone(t, cow_data) ==
    IF TruthyText(cow_data.eid)
    THEN get_or_create(t, {"eid"}, cow_data)
    ELSE IF cow_data.ear_tag_id # <<>> /\ TruthyInt(cow_data.birth_year)
    THEN get_or_create(t, {"ear_tag_id", "birth_year"}, [cow_data EXCEPT !.eid = NaN])
    ELSE [tx |-> t, cow |-> NaN, created |-> FALSE, exc |-> "", inserts |-> 0]

NoKeyCreatesCow(t, cow_data) ==
    IF TruthyText(cow_data.eid)
    THEN get_or_create(t, {"eid", "birth_year", "ear_tag_id"}, cow_data)
    ELSE get_or_create(t, {"ear_tag_id", "birth_year"}, [cow_data EXCEPT !.eid = NaN])

\* get_or_create_cow, lines 300-315
get_or_create_cow(t, cow_data) ==
    IF TruthyText(cow_data.eid)
    THEN get_or_create(t, {"eid", "birth_year", "ear_tag_id"}, cow_data)
    ELSE IF cow_data.ear_tag_id # <<>> /\ TruthyInt(cow_data.birth_year)
    THEN get_or_create(t, {"ear_tag_id", "birth_year"}, [cow_data EXCEPT !.eid = NaN])
    ELSE [tx |-> t, cow |-> NaN, created |-> FALSE, exc |-> "", inserts |-> 0]

extract_pregcheck_data(row, cow) ==
    [cow             |-> cow,
     breeding_season |-> row.breeding_season,
     check_date      |-> IF notna(row.check_date) THEN Some(to_date(Val(row.check_date))) ELSE NaN,
     comments        |-> IF notna(row.comments) THEN strip(Val(row.comments)) ELSE <<>>,
     is_pregnant     |-> row.is_pregnant,
     recheck         |-> IF notna(row.recheck) THEN Val(row.recheck) ELSE FALSE]

\* PregCheck.objects.create: breeding_season is NOT NULL; the failed INSERT has no
\* savepoint of its own, so it marks the enclosing atomic block for rollback
pregcheck_create(t, data) ==
    IF t.needs_rollback
    THEN [tx |-> t, exc |-> "TransactionManagementError", inserts |-> 0]
    ELSE IF ~notna(data.breeding_season)
    THEN [tx |-> [t EXCEPT !.needs_rollback = TRUE], exc |-> "IntegrityError", inserts |-> 1]
    ELSE [tx |-> [t EXCEPT !.pregchecks = Append(@, data)], exc |-> "", inserts |-> 1]

process_row(t, row) ==
    LET g == get_or_create_cow(t, extract_cow_data(row))
        c == pregcheck_create(g.tx, extract_pregcheck_data(row, g.cow))
    IN IF g.exc # ""
       THEN [tx |-> g.tx, exc |-> g.exc, cow_created |-> FALSE,
             pregcheck_created |-> FALSE, inserts |-> g.inserts]
       ELSE IF notna(row.check_date) /\ ~Parseable(Val(row.check_date))
       THEN [tx |-> g.tx, exc |-> "ValueError", cow_created |-> FALSE,
             pregcheck_created |-> FALSE, inserts |-> g.inserts]
       ELSE IF c.exc # ""
       THEN [tx |-> c.tx, exc |-> c.exc, cow_created |-> FALSE,
             pregcheck_created |-> FALSE, inserts |-> g.inserts + c.inserts]
       ELSE [tx |-> c.tx, exc |-> "", cow_created |-> g.created,
             pregcheck_created |-> TRUE, inserts |-> g.inserts + c.inserts]

reset_stats == [cows_created |-> 0, pregchecks_created |-> 0, errors |-> <<>>]

CountsCowPerRow(t, st, i, row) ==
    LET r == process_row(t, row)
    IN [tx      |-> r.tx,
        inserts |-> r.inserts,
        stats   |-> IF r.exc # ""
                    THEN [st EXCEPT !.errors =
                            Append(@, [row |-> i + RowOffset, exc |-> r.exc])]
                    ELSE [st EXCEPT
                            !.cows_created = IF notna(extract_cow_data(row).eid) THEN @ + 1 ELSE @,
                            !.pregchecks_created = IF r.pregcheck_created THEN @ + 1 ELSE @]]

\* One iteration of process_dataframe's loop: the row at dataframe index i (0-based)
process_dataframe_step(t, st, i, row) ==
    LET r == process_row(t, row)
    IN [tx      |-> r.tx,
        inserts |-> r.inserts,
        stats   |-> IF r.exc # ""
                    THEN [st EXCEPT !.errors =
                            Append(@, [row |-> i + RowOffset, exc |-> r.exc])]
                    ELSE [st EXCEPT
                            !.cows_created = IF r.cow_created THEN @ + 1 ELSE @,
                            !.pregchecks_created = IF r.pregcheck_created THEN @ + 1 ELSE @]]

\* process_dataframe from dataframe index i on
RECURSIVE process_dataframe(_, _, _, _)
process_dataframe(t, st, i, rows) ==
    IF i >= Len(rows) THEN [tx |-> t, stats |-> st]
    ELSE LET s == process_dataframe_step(t, st, i, rows[i + 1])
         IN process_dataframe(s.tx, s.stats, i + 1, rows)

\* import_from_file, lines 396-401
SummaryLimit == 5

ErrorsIgnored(st) == FALSE

has_errors(st) == st.errors # <<>>

ImportFailedListsAll(st) ==
    ImportError("Import failed", [count |-> Len(st.errors), summary |-> st.errors, more |-> 0])

import_failed(st) ==
    ImportError("Import failed",
        [count   |-> Len(st.errors),
         summary |-> SubSeq(st.errors, 1, IF Len(st.errors) > SummaryLimit
                                           THEN SummaryLimit ELSE Len(st.errors)),
         more    |-> IF Len(st.errors) > SummaryLimit
                     THEN Len(st.errors) - SummaryLimit ELSE 0])

DryRunCommits(dry) == FALSE

\* import_from_file, lines 404-405
rollback_if_dry_run(dry) == dry

\* What the connection sees of the database outside a transaction
View(database) ==
    [cows |-> database.cows, pregchecks |-> database.pregchecks, needs_rollback |-> FALSE]

Tables(t) == [cows |-> t.cows, pregchecks |-> t.pregchecks]

ReadUncommitted(database, t) == Tables(t)

\* A read by another connection while the import's atomic block is open
ReadCommitted(database, t) == database

ValidateAfterWrites ==
    <<"read_file", "remove_blank_rows", "standardize_dataframe", "atomic", "validate_dataframe">>

\* import_from_file, lines 374-393: the stages in program order
Stages ==
    <<"read_file", "remove_blank_rows", "standardize_dataframe", "validate_dataframe", "atomic">>

After(stage) ==
    LET i == CHOOSE k \in 1..Len(Stages) : Stages[k] = stage
    IN IF i = Len(Stages) THEN "return" ELSE Stages[i + 1]

\* import_from_file as a function of the file and the database it starts from: the
\* exception it ends with (NoExc when it returns) and the statistics it leaves
import_from_file(f, database) ==
    LET kept     == remove_blank_rows(f.rows)
        checked  == validate_dataframe(f.columns, standardize_rows(kept))
        imported == process_dataframe(View(database), reset_stats, 0, standardize_rows(kept))
    IN IF ~SupportedFormat(f.kind)
       THEN [result |-> ValidationError("Unsupported file format", <<>>), stats |-> reset_stats]
       ELSE IF missing_columns(f.columns) # <<>>
       THEN [result |-> ValidationError("Missing required columns", missing_columns(f.columns)),
             stats |-> reset_stats]
       ELSE IF standardize_raises(kept)
       THEN [result |-> ValidationError("Invalid values in is_pregnant column", <<>>),
             stats |-> reset_stats]
       ELSE IF checked # NoExc
       THEN [result |-> checked, stats |-> reset_stats]
       ELSE IF has_errors(imported.stats)
       THEN [result |-> import_failed(imported.stats), stats |-> imported.stats]
       ELSE [result |-> NoExc, stats |-> imported.stats]

-----------------------------------------------------------------------------
(* The state machine: one import_from_file call at a time, and a concurrent reader *)

Init ==
    /\ db = [cows |-> <<>>, pregchecks |-> <<>>]
    /\ tx = View(db)
    /\ pc = "idle"
    /\ file = [kind |-> "xlsx", columns |-> RequiredSet, rows |-> <<>>]
    /\ dry_run = FALSE
    /\ df = <<>>
    /\ idx = 0
    /\ stats = reset_stats
    /\ result = NoExc
    /\ pre = db
    /\ trace = <<>>
    /\ writes = 0
    /\ seen = NaN
    /\ InitSite

Running == pc \notin {"idle", "return", "raise"}

\* Leave stage `stage` normally
Advance(stage) ==
    /\ pc' = After(stage)
    /\ trace' = Append(trace, After(stage))
    /\ result' = result

\* Leave the call with exception e
Raise(e) ==
    /\ pc' = "raise"
    /\ trace' = trace
    /\ result' = e

StartImportKeepsStats(f, dry) ==
    /\ file' = f
    /\ dry_run' = dry
    /\ stats' = stats
    /\ idx' = 0
    /\ pre' = db
    /\ writes' = 0
    /\ seen' = NaN
    /\ tx' = View(db)
    /\ df' = f.rows
    /\ pc' = After("read_file")
    /\ trace' = <<"read_file", After("read_file")>>
    /\ result' = NoExc
    /\ UNCHANGED db
    /\ UNCHANGED site

\* import_from_file(file, dry_run), lines 372-381: reset the statistics, read the file
StartImport(f, dry) ==
    /\ file' = f
    /\ dry_run' = dry
    /\ stats' = reset_stats
    /\ idx' = 0
    /\ pre' = db
    /\ writes' = 0
    /\ seen' = NaN
    /\ tx' = View(db)
    /\ IF SupportedFormat(f.kind)
       THEN /\ df' = f.rows
            /\ pc' = After("read_file")
            /\ trace' = <<"read_file", After("read_file")>>
            /\ result' = NoExc
       ELSE /\ df' = <<>>
            /\ pc' = "raise"
            /\ trace' = <<"read_file">>
            /\ result' = ValidationError("Unsupported file format", <<>>)
    /\ UNCHANGED db
    /\ UNCHANGED site

\* A call of import_from_file, made when no call is in progress
ImportFromFile(f, dry) ==
    /\ ~Running
    /\ Len(f.rows) <= MaxRows
    /\ Len(db.pregchecks) + Len(f.rows) <= MaxStore
    /\ StartImport(f, dry)

\* remove_blank_rows, lines 76-92
RemoveBlankRows ==
    /\ pc = "remove_blank_rows"
    /\ IF missing_columns(file.columns) # <<>>
       THEN /\ Raise(ValidationError("Missing required columns", missing_columns(file.columns)))
            /\ df' = df
       ELSE /\ Advance("remove_blank_rows")
            /\ df' = remove_blank_rows(df)
    /\ UNCHANGED <<db, tx, file, dry_run, idx, stats, pre, writes, seen>>
    /\ UNCHANGED site

\* standardize_dataframe, lines 94-107
StandardizeDataframe ==
    /\ pc = "standardize_dataframe"
    /\ IF standardize_raises(df)
       THEN Raise(ValidationError("Invalid values in is_pregnant column", <<>>))
       ELSE Advance("standardize_dataframe")
    /\ df' = standardize_rows(df)
    /\ UNCHANGED <<db, tx, file, dry_run, idx, stats, pre, writes, seen>>
    /\ UNCHANGED site

\* validate_dataframe, lines 109-159
ValidateDataframe ==
    /\ pc = "validate_dataframe"
    /\ IF validate_dataframe(file.columns, df) # NoExc
       THEN Raise(validate_dataframe(file.columns, df))
       ELSE Advance("validate_dataframe")
    /\ UNCHANGED <<db, tx, file, dry_run, df, idx, stats, pre, writes, seen>>
    /\ UNCHANGED site

\* process_dataframe, lines 346-355: the next row, inside the atomic block
ProcessRow ==
    /\ pc = "atomic"
    /\ idx < Len(df)
    /\ LET s == process_dataframe_step(tx, stats, idx, df[idx + 1])
       IN /\ tx' = s.tx
          /\ stats' = s.stats
          /\ writes' = writes + s.inserts
    /\ idx' = idx + 1
    /\ UNCHANGED <<db, pc, file, dry_run, df, result, pre, trace, seen>>
    /\ UNCHANGED site

\* import_from_file, lines 395-407: leave the atomic block; it rolls back when left
\* by an exception or marked for rollback, and commits otherwise
ExitAtomic ==
    /\ pc = "atomic"
    /\ idx = Len(df)
    /\ IF has_errors(stats)
       THEN /\ Raise(import_failed(stats))
            /\ db' = db
       ELSE /\ Advance("atomic")
            /\ db' = IF rollback_if_dry_run(dry_run) \/ tx.needs_rollback
                     THEN db ELSE Tables(tx)
    /\ tx' = View(db')
    /\ UNCHANGED <<file, dry_run, df, idx, stats, pre, writes, seen>>
    /\ UNCHANGED site

\* Another connection reads both tables while the call is in progress or just over
Read ==
    /\ pc # "idle"
    /\ seen' = Some([tables |-> ReadCommitted(db, tx), open |-> Tables(tx) # db])
    /\ seen' # seen
    /\ UNCHANGED <<db, tx, pc, file, dry_run, df, idx, stats, result, pre, trace, writes>>
    /\ UNCHANGED site

-----------------------------------------------------------------------------
(* Inputs *)

Row(tag, by, eid, season, date, preg, recheck) ==
    [ear_tag_id |-> tag, birth_year |-> by, eid |-> eid, breeding_season |-> season,
     check_date |-> date, comments |-> NaN, is_pregnant |-> preg, recheck |-> recheck]

Tag7 == Some(Txt1("7"))
Tag8 == Some(Txt1("8"))
EidA == Some(Txt1("A"))
Day1 == Some(Txt1("D1"))
Day2 == Some(Txt1("D2"))
CodeP == Some(Txt1("P"))
Born == Some(2020)
Season == Some(2024)

BlankRowValue == Row(NaN, NaN, NaN, NaN, NaN, NaN, NaN)

\* Rows that exercise reconciliation: every way a row finds, creates or fails to
\* create its cow, and a row whose check cannot be stored
TxRows ==
    { Row(Tag7, Born, EidA, Season, Day1, CodeP, NaN),
      Row(Tag7, Born, EidA, Season, Day2, CodeP, Some(TRUE)),
      Row(Tag7, Born, NaN, Season, Day1, CodeP, NaN),
      Row(NaN, NaN, EidA, Season, Day2, CodeP, NaN),
      Row(NaN, NaN, NaN, Season, Day1, CodeP, NaN),
      Row(Tag7, Born, NaN, NaN, Day2, CodeP, NaN) }

Workbook(rows) == [kind |-> "xlsx", columns |-> RequiredSet, rows |-> rows]

RECURSIVE SeqsUpTo(_, _)
SeqsUpTo(S, n) ==
    IF n = 0 THEN {<<>>}
    ELSE LET shorter == SeqsUpTo(S, n - 1)
         IN shorter \cup {Append(q, x) : q \in shorter, x \in S}

\* Files that fail before the atomic block, one per pre-flight failure
PreflightFailures ==
    LET good == Row(Tag7, Born, EidA, Season, Day1, CodeP, NaN)
    IN { [kind |-> "txt", columns |-> RequiredSet, rows |-> <<good>>],
         [kind |-> "csv", columns |-> RequiredSet \ {"eid"}, rows |-> <<good>>],
         Workbook(<<good, [good EXCEPT !.is_pregnant = Some(Txt1("X")), !.check_date = Day2]>>),
         Workbook(<<good, [good EXCEPT !.check_date = NaN]>>),
         Workbook(<<good, [good EXCEPT !.check_date = Some(Txt1("X"))]>>) }

TxFiles == {Workbook(rows) : rows \in SeqsUpTo(TxRows, MaxRows)} \cup PreflightFailures

\* Rows that exercise validation: keys that agree only after strip() or after the
\* time of day is dropped, rows exempt from a duplicate check, every code spelling
Tag7Padded == Some(Txt2(" ", "7"))
EidBlank == Some(Txt1(" "))
Day1Morning == Some(Txt2("D1", "T09"))
CodeF == Some(Txt2(" ", "f"))
CodeO == Some(Txt1("O"))
CodeT == Some(Txt2("t", " "))

ValidationRows ==
    { Row(Tag7, Born, EidA, Season, Day1, CodeP, NaN),
      Row(Tag7Padded, Born, NaN, Season, Day1Morning, CodeF, Some(TRUE)),
      Row(Tag7, Born, EidA, Season, Day2, CodeT, NaN),
      Row(NaN, NaN, EidA, Season, Day1Morning, CodeO, NaN),
      Row(Tag8, NaN, EidA, Season, Day1, CodeP, Some(FALSE)),
      Row(Tag8, Born, NaN, Season, Day1, CodeO, Some(TRUE)),
      Row(Tag7, Born, EidBlank, Season, Day1, CodeP, NaN),
      Row(Tag8, Born, EidBlank, Season, Day1, CodeF, NaN),
      Row(Tag7, NaN, NaN, Season, Day1, CodeP, NaN),
      Row(NaN, NaN, NaN, Season, Day1, CodeP, NaN),
      Row(Tag8, Born, NaN, NaN, Day1, CodeP, NaN),
      Row(Tag7, Born, EidA, Season, Day1, Some(Txt1("X")), NaN),
      Row(Tag7, Born, EidA, Season, Some(Txt1(" ")), CodeP, NaN),
      BlankRowValue }

\* A table read from a file that lacks some columns has no cell for them
Without(row, absent) == [col \in RequiredSet |-> IF col \in absent THEN NaN ELSE row[col]]

AbsentColumns ==
    { {"eid"}, {"eid", "recheck"}, {"ear_tag_id", "comments", "is_pregnant"} }

IncompleteFiles ==
    { [kind |-> "csv", columns |-> RequiredSet \ absent,
       rows |-> [i \in 1..Len(rows) |-> Without(rows[i], absent)]] :
         absent \in AbsentColumns,
         rows \in SeqsUpTo({ Row(Tag7, Born, EidA, Season, Day1, CodeP, NaN),
                             Row(Tag7, Born, EidA, Season, Day1, Some(Txt1("X")), NaN),
                             BlankRowValue }, MaxRows) }

\* Files with empty cells: a surviving row without an is_pregnant or a check_date,
\* rows that are blank because every cell is empty or holds only spaces, and a row
\* whose check cannot be stored
BlankRowSpaces == Row(Some(Txt1(" ")), NaN, EidBlank, NaN, NaN, Some(Txt1(" ")), NaN)

EmptyCellRows ==
    { Row(Tag7, Born, EidA, Season, Day1, CodeP, NaN),
      Row(Tag8, Born, NaN, Season, Day1, NaN, NaN),
      Row(Tag8, Born, NaN, Season, NaN, NaN, NaN),
      Row(Tag8, Born, NaN, NaN, Day2, CodeT, NaN),
      BlankRowValue,
      BlankRowSpaces }

EmptyCellFiles == {Workbook(rows) : rows \in SeqsUpTo(EmptyCellRows, MaxRows)}

ValidationFiles ==
    {Workbook(rows) : rows \in SeqsUpTo(ValidationRows, MaxRows)}
        \cup IncompleteFiles \cup PreflightFailures \cup EmptyCellFiles

\* Long files of rows without a key, some of which cannot be stored
BatchRows ==
    { Row(NaN, NaN, NaN, Season, Day1, CodeP, NaN),
      Row(NaN, NaN, NaN, NaN, Day2, CodeP, NaN) }

BatchFiles == {Workbook(rows) : rows \in SeqsUpTo(BatchRows, MaxBatch)}

Next ==
    \/ \E f \in TxFiles, dry \in BOOLEAN : ImportFromFile(f, dry)
    \/ RemoveBlankRows
    \/ StandardizeDataframe
    \/ ValidateDataframe
    \/ ProcessRow
    \/ ExitAtomic
    \/ Read

Spec == Init /\ [][Next]_vars

\* One call on a fresh database, its file drawn from the validation inputs
NextValidation ==
    \/ \E f \in ValidationFiles, dry \in BOOLEAN : pc = "idle" /\ ImportFromFile(f, dry)
    \/ RemoveBlankRows
    \/ StandardizeDataframe
    \/ ValidateDataframe
    \/ ProcessRow
    \/ ExitAtomic
    \/ Read

SpecValidation == Init /\ [][NextValidation]_vars

\* One call on a fresh database, its file one of the long files
NextBatch ==
    \/ \E f \in BatchFiles, dry \in BOOLEAN : pc = "idle" /\ StartImport(f, dry)
    \/ RemoveBlankRows
    \/ StandardizeDataframe
    \/ ValidateDataframe
    \/ ProcessRow
    \/ ExitAtomic
    \/ Read

SpecBatch == Init /\ [][NextBatch]_vars

-----------------------------------------------------------------------------
(* Claims checked under Spec *)

Finished == pc \in {"return", "raise"}

\* The stage the call was in when it raised or returned
LastStage == trace[Len(trace)]

\* C1: when at least one surviving row raised during per-row reconciliation, the
\* call fails with ImportError ("Import failed") and the committed database holds
\* none of the file's cows or checks, those of the rows that succeeded included.
C1_RowErrorRollsBackAll ==
    stats.errors # <<>> =>
        /\ db = pre
        /\ Finished => /\ pc = "raise"
                       /\ result.exc = "ImportError"
                       /\ result.msg = "Import failed"
                       /\ result.detail.count = Len(stats.errors)

\* A call failed on its first data row after a later row of the file had been
\* written successfully inside the transaction
C1_Witness ==
    /\ pc = "raise"
    /\ result.msg = "Import failed"
    /\ stats.errors[1].row = RowOffset
    /\ stats.pregchecks_created >= 1
    /\ Len(pre.cows) >= 1

\* The statistics a non-dry-run import of file f into database d returns
RealImportStats(f, d) ==
    process_dataframe(View(d), reset_stats, 0,
                      standardize_rows(remove_blank_rows(f.rows))).stats

\* C2: a dry run that returns gives the statistics a real import of the same file
\* into the same database returns, and leaves the committed database as it was.
C2_DryRunSameStatsNoWrites ==
    pc = "return" =>
        /\ stats = RealImportStats(file, pre)
        /\ dry_run => db = pre /\ tx = View(pre)
        /\ ~dry_run => Len(db.pregchecks) = Len(pre.pregchecks) + stats.pregchecks_created

C2_Witness ==
    /\ pc = "return"
    /\ dry_run
    /\ stats.cows_created = 1
    /\ stats.pregchecks_created = 2
    /\ Len(pre.cows) = 1
    /\ db = pre

\* C3: the stages run in order as hard gates; a call that fails in a pre-flight
\* stage (read, column check, standardization, validation) has attempted no write
\* and leaves the database as it was.
C3_PreflightFailureWritesNothing ==
    /\ \A i \in 1..Len(trace) :
          trace[i] = <<"read_file", "remove_blank_rows", "standardize_dataframe",
                       "validate_dataframe", "atomic", "return">>[i]
    /\ (pc = "raise" /\ LastStage # "atomic") =>
          /\ writes = 0
          /\ db = pre
          /\ tx = View(pre)
          /\ stats = reset_stats

C3_Witness ==
    /\ pc = "raise"
    /\ LastStage = "validate_dataframe"
    /\ result.msg = "Found duplicate records"
    /\ Len(pre.pregchecks) >= 1

\* C4: in every reachable state no two cows of the database share a present eid,
\* and no two share a pair (ear_tag_id, birth_year) with both present.
C4_CowIdentityUnique ==
    \A t \in {db.cows, tx.cows} :
        \A i, j \in 1..Len(t) :
            i < j =>
                /\ notna(t[i].eid) => t[i].eid # t[j].eid
                /\ (t[i].ear_tag_id # <<>> /\ notna(t[i].birth_year)) =>
                      ~(t[i].ear_tag_id = t[j].ear_tag_id /\ t[i].birth_year = t[j].birth_year)

\* Two cows are stored and an import that tried to add a third with a taken key
\* was refused
C4_Witness ==
    /\ Len(db.cows) = 2
    /\ pc = "raise"
    /\ result.msg = "Import failed"
    /\ \E k \in 1..Len(stats.errors) : stats.errors[k].exc = "IntegrityError"

\* C5: a concurrent reader sees the database as it was before the import or with
\* the whole batch committed, never a part of the batch.
C5_ReaderSeesAllOrNothing ==
    notna(seen) =>
        \/ Val(seen).tables = pre
        \/ /\ pc = "return"
           /\ ~dry_run
           /\ Val(seen).tables =
                 Tables(process_dataframe(View(pre), reset_stats, 0, df).tx)
           /\ Len(Val(seen).tables.pregchecks) = Len(pre.pregchecks) + Len(df)

\* The reader read while the transaction held uncommitted rows of a two-row batch
C5_Witness ==
    /\ notna(seen)
    /\ Val(seen).open
    /\ pc = "atomic"
    /\ idx = 1
    /\ Len(df) = 2
    /\ Len(tx.pregchecks) = Len(db.pregchecks) + 1

-----------------------------------------------------------------------------
(* Claims checked under SpecValidation.  After standardization df holds the      *)
(* surviving rows of the file; dataframe index i - 1 is reported as row i + 1.   *)

\* The call is over and its file passed the format, column and code gates
PassedCodeGate ==
    /\ Finished
    /\ LastStage \in {"validate_dataframe", "atomic", "return"}

\* Every surviving row has a check_date that is present and parses
DatesPresent ==
    \A i \in 1..Len(df) :
        /\ notna(df[i].check_date)
        /\ Parseable(Val(df[i].check_date))

TagOf(i) == strip(Val(df[i].ear_tag_id))
EidOf(i) == strip(Val(df[i].eid))
DayOf(i) == to_date(Val(df[i].check_date))

HasTagKey(i) ==
    /\ notna(df[i].ear_tag_id)
    /\ TagOf(i) # <<>>
    /\ notna(df[i].birth_year)

HasEid(i) == notna(df[i].eid) /\ EidOf(i) # <<>>

SameTagKey(i, j) ==
    /\ HasTagKey(i)
    /\ HasTagKey(j)
    /\ TagOf(i) = TagOf(j)
    /\ df[i].birth_year = df[j].birth_year
    /\ DayOf(i) = DayOf(j)

SameEidKey(i, j) ==
    /\ HasEid(i)
    /\ HasEid(j)
    /\ EidOf(i) = EidOf(j)
    /\ DayOf(i) = DayOf(j)

DuplicatesReported ==
    /\ pc = "raise"
    /\ result.exc = "ValidationError"
    /\ result.msg = "Found duplicate records"

Entries == {result.detail.entries[k] : k \in 1..Len(result.detail.entries)}

RowsOf(e) == {e.rows[k] : k \in 1..Len(e.rows)}

\* C6: two surviving rows with the same non-empty ear tag, the same birth year and
\* the same check date make the import fail with a duplicate error whose ear-tag
\* entry names that key and the row numbers of both rows, whatever their eid,
\* is_pregnant code and recheck value, and nothing is written.
C6_EarTagDuplicatesRejected ==
    (PassedCodeGate /\ DatesPresent) =>
        \A i, j \in 1..Len(df) :
            (i < j /\ SameTagKey(i, j)) =>
                /\ DuplicatesReported
                /\ \E e \in Entries :
                      /\ e.by = "Ear Tag"
                      /\ e.key = <<TagOf(i), Val(df[i].birth_year), DayOf(i)>>
                      /\ {i + 1, j + 1} \subseteq RowsOf(e)
                /\ writes = 0
                /\ db = pre

\* The two rows agree on the key only after strip() and after the time of day is
\* dropped, and differ in eid, is_pregnant and recheck
C6_Witness ==
    /\ DuplicatesReported
    /\ Len(df) = 2
    /\ SameTagKey(1, 2)
    /\ Val(df[1].ear_tag_id) # Val(df[2].ear_tag_id)
    /\ df[1].check_date # df[2].check_date
    /\ df[1].eid # df[2].eid
    /\ df[1].is_pregnant # df[2].is_pregnant
    /\ df[1].recheck # df[2].recheck

\* C7: two surviving rows with the same non-empty eid and the same check date make
\* the import fail with a duplicate error that has an entry of its own for the
\* (eid, check date) key, naming both rows, even when ear tag and birth year differ.
C7_EidDuplicatesRejected ==
    (PassedCodeGate /\ DatesPresent) =>
        \A i, j \in 1..Len(df) :
            (i < j /\ SameEidKey(i, j)) =>
                /\ DuplicatesReported
                /\ \E e \in Entries :
                      /\ e.by = "EID"
                      /\ e.key = <<EidOf(i), DayOf(i)>>
                      /\ {i + 1, j + 1} \subseteq RowsOf(e)
                /\ writes = 0
                /\ db = pre

\* The two rows share eid and day but not the ear tag, and no ear-tag entry is reported
C7_Witness ==
    /\ DuplicatesReported
    /\ Len(df) = 2
    /\ SameEidKey(1, 2)
    /\ df[1].ear_tag_id # df[2].ear_tag_id
    /\ ~SameTagKey(1, 2)
    /\ \A e \in Entries : e.by = "EID"

\* C8: a row with an empty eid never takes part in the eid check, and a file whose
\* surviving rows all have an empty eid, distinct ear-tag keys and a breeding
\* season imports successfully with one check per row.
C8_EmptyEidExempt ==
    /\ DuplicatesReported =>
          \A e \in Entries :
              e.by = "EID" => \A n \in RowsOf(e) : HasEid(n - 1)
    /\ ( /\ PassedCodeGate
         /\ DatesPresent
         /\ \A i \in 1..Len(df) : ~HasEid(i) /\ notna(df[i].breeding_season)
         /\ \A i, j \in 1..Len(df) : i < j => ~SameTagKey(i, j) ) =>
          /\ pc = "return"
          /\ stats.errors = <<>>
          /\ stats.pregchecks_created = Len(df)
          /\ ~dry_run => Len(db.pregchecks) = Len(df)

\* Two rows with a whitespace-only eid, the same check date and different ear tags
\* were imported
C8_Witness ==
    /\ pc = "return"
    /\ Len(df) = 2
    /\ notna(df[1].eid) /\ ~HasEid(1)
    /\ notna(df[2].eid) /\ ~HasEid(2)
    /\ DayOf(1) = DayOf(2)
    /\ stats.pregchecks_created = 2
    /\ stats.cows_created = 2

TagGroups == {<<TagOf(i), Val(df[i].birth_year), DayOf(i)>> :
                 i \in {a \in 1..Len(df) : \E b \in 1..Len(df) : a # b /\ SameTagKey(a, b)}}

EidGroups == {<<EidOf(i), DayOf(i)>> :
                 i \in {a \in 1..Len(df) : \E b \in 1..Len(df) : a # b /\ SameEidKey(a, b)}}

C10_MissingColumnsNamed ==
    (Finished /\ SupportedFormat(file.kind) /\ RequiredSet \ file.columns # {}) =>
        /\ pc = "raise"
        /\ result.exc = "ValidationError"
        /\ result.msg = "Missing required columns"
        /\ {result.detail[k] : k \in 1..Len(result.detail)} = RequiredSet \ file.columns
        /\ Len(result.detail) = Cardinality(RequiredSet \ file.columns)
        /\ trace = <<"read_file", "remove_blank_rows">>
        /\ df = file.rows
        /\ writes = 0
        /\ db = pre

\* Two columns are absent and a row of the file carries an invalid is_pregnant code
C10_Witness ==
    /\ pc = "raise"
    /\ result.msg = "Missing required columns"
    /\ result.detail = <<"eid", "recheck">>
    /\ Len(file.rows) = 2
    /\ \E i \in 1..2 : file.rows[i].is_pregnant = Some(Txt1("X"))

-----------------------------------------------------------------------------
(* Claims about normalization and blank rows, checked under SpecValidation *)

\* The rows of the file that are not blank, as they were read
SurvivingRows == SelectSeq(file.rows, LAMBDA r : ~BlankRow(r))

\* What a cell's text says, read off its symbols: its only non-space symbol
CodeLetters(c) == IF notna(c) THEN SelectSeq(Val(c), LAMBDA ch : ch # " ") ELSE <<>>
MeansTrue(c) == Len(CodeLetters(c)) = 1 /\ CodeLetters(c)[1] \in {"T", "t", "P", "p"}
MeansFalse(c) == Len(CodeLetters(c)) = 1 /\ CodeLetters(c)[1] \in {"F", "f", "O", "o"}
InvalidCode(c) == CodeLetters(c) # <<>> /\ ~MeansTrue(c) /\ ~MeansFalse(c)

ColumnsComplete == SupportedFormat(file.kind) /\ RequiredSet \subseteq file.columns

\* C11: is_pregnant codes T and P become true and F and O become false, whatever
\* their case and surrounding spaces; any other non-empty value in a surviving row
\* makes the call fail with a ValidationError (the invalid-values error when the
\* file has a supported format and all columns) before anything is written, so it
\* is never stored as false or as any check; a stored check carries the truth
\* value of its row's code.
C11_CodesNormalized ==
    /\ (Finished /\ \E i \in 1..Len(SurvivingRows) :
                        InvalidCode(SurvivingRows[i].is_pregnant)) =>
          /\ pc = "raise"
          /\ result.exc = "ValidationError"
          /\ ColumnsComplete =>
                /\ result.msg = "Invalid values in is_pregnant column"
                /\ LastStage = "standardize_dataframe"
          /\ writes = 0
          /\ tx = View(pre)
          /\ db = pre
    /\ (Finished /\ ColumnsComplete
          /\ \A i \in 1..Len(SurvivingRows) :
                \/ MeansTrue(SurvivingRows[i].is_pregnant)
                \/ MeansFalse(SurvivingRows[i].is_pregnant)) =>
          /\ result.msg # "Invalid values in is_pregnant column"
          /\ Len(df) = Len(SurvivingRows)
          /\ \A i \in 1..Len(df) :
                df[i].is_pregnant = Some(MeansTrue(SurvivingRows[i].is_pregnant))
    /\ (pc = "return" /\ ~dry_run) =>
          /\ Len(db.pregchecks) = Len(pre.pregchecks) + Len(SurvivingRows)
          /\ \A i \in 1..Len(SurvivingRows) :
                db.pregchecks[Len(pre.pregchecks) + i].is_pregnant =
                    Some(MeansTrue(SurvivingRows[i].is_pregnant))

\* A committed import whose codes "t " and " f" were stored as true and false
C11_Witness ==
    /\ pc = "return"
    /\ ~dry_run
    /\ Len(file.rows) = 2
    /\ file.rows[1].is_pregnant = CodeT
    /\ file.rows[2].is_pregnant = CodeF
    /\ db.pregchecks[1].is_pregnant = Some(TRUE)
    /\ db.pregchecks[2].is_pregnant = Some(FALSE)

\* The required fields that are empty in some surviving row of the file
EmptyCell(c) == ~notna(c) \/ CodeLetters(c) = <<>>
EmptyRequiredFields ==
    {field \in {"check_date", "is_pregnant"} :
        \E i \in 1..Len(SurvivingRows) : EmptyCell(SurvivingRows[i][field])}

\* C12: when a surviving row of a complete file has an empty check_date or an
\* empty is_pregnant (and no row carries an invalid code), the call fails with
\* the required-field error naming a field that is empty, and with no other
\* failure kind.
C12_EmptyRequiredFieldNamed ==
    (/\ Finished
     /\ ColumnsComplete
     /\ \A i \in 1..Len(SurvivingRows) : ~InvalidCode(SurvivingRows[i].is_pregnant)
     /\ EmptyRequiredFields # {}) =>
        /\ pc = "raise"
        /\ result.exc = "ValidationError"
        /\ result.msg = "Required field contains empty values"
        /\ Len(result.detail) = 1
        /\ result.detail[1] \in EmptyRequiredFields

\* A row every one of whose eight cells is empty or holds only spaces
AllEmpty(r) ==
    \A col \in RequiredSet :
        \/ ~notna(r[col])
        \/ col \in TextColumns /\ CodeLetters(r[col]) = <<>>

\* C13: rows whose eight fields are all empty, whitespace-only or absent are removed
\* before validation: the call ends exactly as it ends on the same file without
\* those rows, with the same exception or return and the same cows_created,
\* pregchecks_created and errors, wherever the blank rows stand in the file.
C13_BlankRowsIgnored ==
    Finished =>
        LET bare == [file EXCEPT !.rows = SelectSeq(@, LAMBDA r : ~AllEmpty(r))]
        IN /\ result = import_from_file(bare, pre).result
           /\ stats = import_from_file(bare, pre).stats
           /\ (pc = "return") = (import_from_file(bare, pre).result = NoExc)

\* A row of spaces precedes a row that is imported
C13_Witness ==
    /\ pc = "return"
    /\ ~dry_run
    /\ Len(file.rows) = 2
    /\ file.rows[1] = BlankRowSpaces
    /\ ~AllEmpty(file.rows[2])
    /\ stats.cows_created = 1
    /\ stats.pregchecks_created = 1
    /\ Len(db.pregchecks) = 1

-----------------------------------------------------------------------------
(* Claims about reconciliation, checked under Spec.  A reconciliation step is   *)
(* ProcessRow on the row at dataframe index idx, df[idx + 1].                   *)

RowStep == pc = "atomic" /\ idx < Len(df) /\ idx' = idx + 1

\* The key fields the row supplies
SuppliesEid(row) == notna(row.eid) /\ CodeLetters(row.eid) # <<>>
SuppliesTag(row) == notna(row.ear_tag_id) /\ CodeLetters(row.ear_tag_id) # <<>>
SuppliesBirthYear(row) == notna(row.birth_year)
NoUsableKey(row) == ~SuppliesEid(row) /\ ~(SuppliesTag(row) /\ SuppliesBirthYear(row))

\* The row's check can be stored: it names a breeding season and no earlier
\* statement has broken the transaction
Storable(row) == notna(row.breeding_season) /\ ~tx.needs_rollback

\* The cows that agree with the row on every key field it supplies
MatchesOnSupplied(cows, row) ==
    {i \in 1..Len(cows) :
        IF SuppliesEid(row)
        THEN /\ cows[i].eid = Some(strip(Val(row.eid)))
             /\ SuppliesBirthYear(row) => cows[i].birth_year = row.birth_year
             /\ SuppliesTag(row) => cows[i].ear_tag_id = strip(Val(row.ear_tag_id))
        ELSE /\ SuppliesTag(row)
             /\ SuppliesBirthYear(row)
             /\ cows[i].ear_tag_id = strip(Val(row.ear_tag_id))
             /\ cows[i].birth_year = row.birth_year}

\* C14: a row is matched on exactly the key fields it supplies: when some cow
\* agrees with a storable row on its eid and on those of birth_year and ear tag
\* that the row provides (or, without an eid, on its ear tag and birth year), the
\* row's check is bound to such a cow, no cow is created and no error is
\* recorded; a cow is created only when no cow matches.
C14_MatchOnSuppliedFields ==
    [][RowStep =>
        LET row == df[idx + 1]
            found == MatchesOnSupplied(tx.cows, row)
        IN /\ tx'.cows # tx.cows => found = {}
           /\ (found # {} /\ Storable(row)) =>
                 /\ stats'.errors = stats.errors
                 /\ stats'.cows_created = stats.cows_created
                 /\ Len(tx'.pregchecks) = Len(tx.pregchecks) + 1
                 /\ tx'.pregchecks[Len(tx'.pregchecks)].cow \subseteq found
                 /\ tx'.pregchecks[Len(tx'.pregchecks)].cow # {}]_vars

C16_StatsMatchStore ==
    (pc = "return" /\ ~dry_run) =>
        /\ Len(db.cows) = Len(pre.cows) + stats.cows_created
        /\ Len(db.pregchecks) = Len(pre.pregchecks) + stats.pregchecks_created
        /\ stats.pregchecks_created = Len(SurvivingRows)
        /\ stats.errors = <<>>
        /\ \A i \in 1..Len(SurvivingRows) :
              LET cow == db.pregchecks[Len(pre.pregchecks) + i].cow
              IN IF NoUsableKey(SurvivingRows[i]) THEN cow = NaN
                 ELSE /\ cow # NaN
                      /\ cow \subseteq 1..Len(db.cows)
        /\ stats.cows_created =
              Cardinality({Val(db.pregchecks[Len(pre.pregchecks) + i].cow) :
                              i \in {j \in 1..Len(SurvivingRows) :
                                        ~NoUsableKey(SurvivingRows[j])}}
                          \ (1..Len(pre.cows)))

\* Two rows for the same new cow on different dates: one cow, two checks
C16_Witness ==
    /\ pc = "return"
    /\ ~dry_run
    /\ pre.cows = <<>>
    /\ Len(df) = 2
    /\ df[1].eid = df[2].eid
    /\ df[1].ear_tag_id = df[2].ear_tag_id
    /\ df[1].check_date # df[2].check_date
    /\ stats.cows_created = 1
    /\ stats.pregchecks_created = 2
    /\ Len(db.cows) = 1
    /\ db.pregchecks[1].cow = Some(1)
    /\ db.pregchecks[2].cow = Some(1)

\* The row supplies both keys, its eid is the eid of one cow and its ear tag and
\* birth year are those of another cow
KeysConflict(cows, row) ==
    /\ SuppliesEid(row)
    /\ SuppliesTag(row)
    /\ SuppliesBirthYear(row)
    /\ \E a, b \in 1..Len(cows) :
          /\ a # b
          /\ cows[a].eid = Some(strip(Val(row.eid)))
          /\ cows[b].ear_tag_id = strip(Val(row.ear_tag_id))
          /\ cows[b].birth_year = row.birth_year

\* C17: a row whose eid identifies one existing cow and whose ear tag and birth
\* year identify a different existing cow is rejected: its step records one error
\* for its row number, binds no check to any cow and changes no cow, and the call
\* ends in failure with the store as it was before the call.
C17_ConflictingKeysRejected ==
    /\ [][(RowStep /\ KeysConflict(tx.cows, df[idx + 1])) =>
            /\ Len(stats'.errors) = Len(stats.errors) + 1
            /\ stats'.errors[Len(stats'.errors)].row = idx + 2
            /\ SubSeq(stats'.errors, 1, Len(stats.errors)) = stats.errors
            /\ stats'.cows_created = stats.cows_created
            /\ stats'.pregchecks_created = stats.pregchecks_created
            /\ tx'.cows = tx.cows
            /\ tx'.pregchecks = tx.pregchecks]_vars
    /\ []((Finished /\ \E i \in 1..Len(SurvivingRows) :
                          KeysConflict(pre.cows, SurvivingRows[i])) =>
            /\ pc = "raise"
            /\ db = pre)

\* The store holds a cow known by its eid and another known by ear tag and birth
\* year; a row naming both was rejected and the import failed
C17_Witness ==
    /\ pc = "raise"
    /\ result.exc = "ImportError"
    /\ result.msg = "Import failed"
    /\ Len(pre.cows) = 2
    /\ Len(df) = 1
    /\ KeysConflict(pre.cows, df[1])
    /\ stats.errors = <<[row |-> 2, exc |-> "IntegrityError"]>>
    /\ db = pre

\* Every record of the table `before` is in the table `after`, in place and unchanged
Preserved(before, after) ==
    /\ Len(before) <= Len(after)
    /\ \A i \in 1..Len(before) : after[i] = before[i]

C19_OneErrorPerFailingRow ==
    /\ [][RowStep =>
            LET alone == process_row([tx EXCEPT !.needs_rollback = FALSE], df[idx + 1])
            IN IF alone.exc # ""
               THEN /\ Len(stats'.errors) = Len(stats.errors) + 1
                    /\ SubSeq(stats'.errors, 1, Len(stats.errors)) = stats.errors
                    /\ stats'.errors[Len(stats'.errors)].row = idx + 2
               ELSE stats'.errors = stats.errors]_vars
    /\ []((Finished /\ LastStage \in {"atomic", "return"}) => idx = Len(df))

-----------------------------------------------------------------------------
(* Row numbers, checked under SpecValidation *)

\* The line of the file that holds the i-th surviving row, the header being line 1
FileLine(i) ==
    1 + CHOOSE k \in 1..Len(file.rows) :
            /\ ~AllEmpty(file.rows[k])
            /\ Cardinality({j \in 1..k : ~AllEmpty(file.rows[j])}) = i

\* C20: a reported row number is the row's line in the file, the header being
\* line 1: the error of the row at dataframe index idx carries the file line of
\* that row, and every row number of a duplicate group is the line of a row of the
\* file that carries the group's key, blank rows before it included in the count.
C20_RowNumberIsFileLine ==
    /\ [][(RowStep /\ Len(stats'.errors) > Len(stats.errors)) =>
            stats'.errors[Len(stats'.errors)].row = FileLine(idx + 1)]_vars
    /\ [](DuplicatesReported =>
            \A e \in Entries : \A n \in RowsOf(e) :
                /\ n - 1 \in 1..Len(file.rows)
                /\ ~AllEmpty(file.rows[n - 1])
                /\ e.by = "EID" =>
                      /\ SuppliesEid(file.rows[n - 1])
                      /\ strip(Val(file.rows[n - 1].eid)) = e.key[1]
                /\ e.by = "Ear Tag" =>
                      /\ SuppliesTag(file.rows[n - 1])
                      /\ strip(Val(file.rows[n - 1].ear_tag_id)) = e.key[1])

-----------------------------------------------------------------------------
(* The failure message, checked under SpecBatch *)

ImportFailed == pc = "raise" /\ result.exc = "ImportError" /\ result.msg = "Import failed"

\* C21: when an import fails with per-row errors, the message states the total
\* number of errors and lists the first five errors in row order and no more;
\* the number of remaining errors follows exactly when there are more than five.
C21_FailureMessagePreview ==
    ImportFailed =>
        LET n == Len(stats.errors)
            listed == result.detail.summary
        IN /\ n > 0
           /\ result.detail.count = n
           /\ Len(listed) <= 5
           /\ Len(listed) = IF n <= 5 THEN n ELSE 5
           /\ \A k \in 1..Len(listed) : listed[k] = stats.errors[k]
           /\ \A k \in 1..(n - 1) : stats.errors[k].row < stats.errors[k + 1].row
           /\ (result.detail.more # 0) = (n > 5)
           /\ result.detail.more = n - Len(listed)

\* Seven rows failed: five are listed and two are counted as remaining
C21_Witness ==
    /\ ImportFailed
    /\ Len(df) = 7
    /\ result.detail.count = 7
    /\ Len(result.detail.summary) = 5
    /\ result.detail.summary[5].row = 6
    /\ result.detail.more = 2

-----------------------------------------------------------------------------
(* Repeated calls, checked under Spec *)

\* The checks the call added to the committed store
AddedChecks == SubSeq(db.pregchecks, Len(pre.pregchecks) + 1, Len(db.pregchecks))

\* The store before the call already ended with the very checks this call added:
\* the same file had just been imported
ImportedBefore ==
    /\ Len(pre.pregchecks) >= Len(AddedChecks)
    /\ SubSeq(pre.pregchecks, Len(pre.pregchecks) - Len(AddedChecks) + 1,
              Len(pre.pregchecks)) = AddedChecks

\* C27: duplicate detection looks at the rows of the file only: once a file has
\* been imported, importing it again is not rejected as a duplicate; the second
\* import returns, creates no cow and adds one further check per surviving row,
\* so the store holds two equal checks for each row of the file.
C27_SameFileTwice ==
    /\ (pc = "return" /\ ~dry_run) =>
          /\ import_from_file(file, db).result = NoExc
          /\ import_from_file(file, db).stats =
                [cows_created |-> 0, pregchecks_created |-> Len(SurvivingRows),
                 errors |-> <<>>]
    /\ (pc = "return" /\ ~dry_run /\ ImportedBefore) =>
          /\ stats.cows_created = 0
          /\ stats.pregchecks_created = Len(SurvivingRows)
          /\ db.cows = pre.cows
    /\ (Finished /\ ColumnsComplete) =>
          (result.msg = "Found duplicate records") =
              (validate_dataframe(file.columns, standardize_rows(SurvivingRows)).msg
                  = "Found duplicate records"
               /\ ~standardize_raises(SurvivingRows))

\* The same one-row file was imported twice: one cow, two equal checks
C27_Witness ==
    /\ pc = "return"
    /\ ~dry_run
    /\ Len(df) = 1
    /\ SuppliesEid(df[1])
    /\ ImportedBefore
    /\ Len(db.cows) = 1
    /\ Len(db.pregchecks) = 2
    /\ db.pregchecks[1] = db.pregchecks[2]
    /\ stats = [cows_created |-> 0, pregchecks_created |-> 1, errors |-> <<>>]

\* C29: every call starts from zeroed statistics: what a finished call reports is
\* what the file produces on the store the call found, whatever calls were made
\* before it on the same service, failed ones included; its counts cover the
\* rows of this call only.
C29_StatsStartFromZero ==
    /\ (pc = After("read_file") /\ Len(trace) = 2) =>
          stats = [cows_created |-> 0, pregchecks_created |-> 0, errors |-> <<>>]
    /\ Finished =>
          /\ stats = import_from_file(file, pre).stats
          /\ result = import_from_file(file, pre).result
          /\ stats.pregchecks_created + Len(stats.errors) <= Len(SurvivingRows)
          /\ stats.cows_created <= stats.pregchecks_created
          /\ LastStage \in {"atomic", "return"} =>
                stats.pregchecks_created + Len(stats.errors) = Len(SurvivingRows)

\* A call returned on a store that earlier calls had filled: it counts its own row
C29_Witness ==
    /\ pc = "return"
    /\ ~dry_run
    /\ Len(pre.pregchecks) = 2
    /\ Len(pre.cows) = 1
    /\ Len(df) = 1
    /\ stats = [cows_created |-> 1, pregchecks_created |-> 1, errors |-> <<>>]
    /\ Len(db.pregchecks) = 3

-----------------------------------------------------------------------------
(* Reports of preg_check/views.py.  They read the tables of db; a check's id   *)
(* and creation time are its position in db.pregchecks.                        *)

MaxChecks == 3

\* The truth value Python gives pc.is_pregnant: None and False are false
IsPregnant(c) == c.is_pregnant = Some(TRUE)

\* pc.cow and pc.cow.birth_year is not None
HasBirthYear(cows, c) == notna(c.cow) /\ notna(cows[Val(c.cow)].birth_year)

\* cow_key: "cow-{id}" for a cow with a birth year, "unknown-{check id}" otherwise
cow_key(cows, pregchecks, k) ==
    IF HasBirthYear(cows, pregchecks[k]) THEN <<"cow", Val(pregchecks[k].cow)>>
    ELSE <<"unknown", k>>

\* by_key: the cow's birth year, NaN standing for 'Unknown'
by_key(cows, pregchecks, k) ==
    IF HasBirthYear(cows, pregchecks[k]) THEN cows[Val(pregchecks[k].cow)].birth_year
    ELSE NaN

\* PregCheck.objects.filter(breeding_season=season): the ids of the season's checks
season_pregchecks(pregchecks, season) ==
    {k \in 1..Len(pregchecks) : pregchecks[k].breeding_season = Some(season)}

\* order_by('cow_id', 'check_date', 'created_on') among the checks of one cow: in
\* SQLite, whose files database_management/views.py manages, a NULL check_date
\* sorts before every date; equal dates are ordered by creation
DateRank(c) == IF notna(c.check_date) THEN Val(c.check_date) ELSE 0

CheckBefore(pregchecks, k, l) ==
    \/ DateRank(pregchecks[k]) < DateRank(pregchecks[l])
    \/ DateRank(pregchecks[k]) = DateRank(pregchecks[l]) /\ k < l

FirstCheckIsLatest(cows, pregchecks, checks) ==
    {k \in checks :
        \A l \in checks :
            cow_key(cows, pregchecks, l) = cow_key(cows, pregchecks, k)
                => ~CheckBefore(pregchecks, k, l)}

\* first_check_by_cow: the first check of every cow key, in query order
first_check_by_cow(cows, pregchecks, checks) ==
    {k \in checks :
        \A l \in checks :
            cow_key(cows, pregchecks, l) = cow_key(cows, pregchecks, k)
                => ~CheckBefore(pregchecks, l, k)}

\* f"{n / d * 100:.1f}": the value in tenths of a percent, nearest, ties to even
RoundDiv(n, d) ==
    LET q == n \div d
        r == n % d
    IN IF 2 * r < d THEN q
       ELSE IF 2 * r > d THEN q + 1
       ELSE IF q % 2 = 0 THEN q ELSE q + 1

RECURSIVE SumOver(_, _)
SumOver(f, S) ==
    IF S = {} THEN 0
    ELSE LET x == CHOOSE x \in S : TRUE IN f[x] + SumOver(f, S \ {x})

\* PregCheck.objects.filter(breeding_season=season, recheck=True), line 462
preg_rechecks(pregchecks, season) ==
    {k \in season_pregchecks(pregchecks, season) : pregchecks[k].recheck}

\* PregCheckReportFive.get for the season given in the query: rows and totals.
\* pct_pregnant is in tenths of a percent; its average in the totals row is
\* floating-point arithmetic on the formatted strings and is left out.
report_five(cows, pregchecks, season) ==
    LET all == season_pregchecks(pregchecks, season)
        first == first_check_by_cow(cows, pregchecks, all)
        keys == {by_key(cows, pregchecks, k) : k \in first}
        ordered == SortedSeq(keys, {p \in keys \X keys :
                                      /\ notna(p[1])
                                      /\ notna(p[2]) => Val(p[1]) > Val(p[2])
                                      /\ p[1] # p[2]})
        of(by, S) == {k \in S : by_key(cows, pregchecks, k) = by}
        cowsof(by, S) == {cow_key(cows, pregchecks, k) : k \in of(by, S)}
        row(by) ==
            LET open == Cardinality({k \in of(by, first) : ~IsPregnant(pregchecks[k])})
                pregnant == Cardinality({k \in of(by, first) : IsPregnant(pregchecks[k])})
                rechecked == Cardinality(cowsof(by, preg_rechecks(pregchecks, season)))
                total_cows == Cardinality(cowsof(by, all))
                pregnant_cows ==
                    Cardinality(cowsof(by, {k \in all : IsPregnant(pregchecks[k])}))
            IN [cow_birth_year      |-> by,
                age                 |-> IF notna(by) THEN Some(season - Val(by)) ELSE NaN,
                first_pass_open     |-> open,
                first_pass_pregnant |-> pregnant,
                first_pass_total    |-> open + pregnant,
                preg_recheck_count  |-> rechecked,
                net_open            |-> open - rechecked,
                net_pregnant        |-> pregnant + rechecked,
                pct_pregnant        |-> IF total_cows > 0
                                        THEN RoundDiv(pregnant_cows * 1000, total_cows)
                                        ELSE 0]
        rows == [n \in 1..Len(ordered) |-> row(ordered[n])]
        sum(col) == SumOver([n \in 1..Len(rows) |-> rows[n][col]], 1..Len(rows))
    IN [breeding_season |-> season,
        rows   |-> rows,
        totals |-> IF rows = <<>> THEN NaN
                   ELSE Some([first_pass_open     |-> sum("first_pass_open"),
                              first_pass_pregnant |-> sum("first_pass_pregnant"),
                              first_pass_total    |-> sum("first_pass_total"),
                              preg_recheck_count  |-> sum("preg_recheck_count"),
                              net_open            |-> sum("net_open"),
                              net_pregnant        |-> sum("net_pregnant")])]

\* seasons_list = sorted(all_seasons, reverse=True)[:4]: how many seasons are shown
DisplayedSeasons == 4

\* The last DisplayedSeasons distinct breeding seasons of the table, ascending
seasons_list(pregchecks) ==
    LET all == {Val(pregchecks[k].breeding_season) : k \in 1..Len(pregchecks)}
        last == {s \in all : Cardinality({t \in all : t > s}) < DisplayedSeasons}
    IN SortedSeq(last, {p \in last \X last : p[1] < p[2]})

\* pregnancy_rates_by_season_and_age[season].get(age): the first checks of the
\* season's cows of that age, as the pair <<pregnant, total>>; NaN when there is none
preg_rate(cows, pregchecks, season, age) ==
    LET first == {k \in first_check_by_cow(cows, pregchecks,
                                           season_pregchecks(pregchecks, season)) :
                    /\ HasBirthYear(cows, pregchecks[k])
                    /\ season - Val(by_key(cows, pregchecks, k)) = age}
    IN IF first = {} THEN NaN
       ELSE Some(<<Cardinality({k \in first : IsPregnant(pregchecks[k])}),
                   Cardinality(first)>>)

\* f"{rate:.1f}%" of pregnant / total * 100, in tenths of a percent
format_rate(rate) == RoundDiv(rate[1] * 1000, rate[2])

RECURSIVE Product(_, _)
Product(f, S) ==
    IF S = {} THEN 1
    ELSE LET x == CHOOSE x \in S : TRUE IN f[x] * Product(f, S \ {x})

\* f"{sum(rates) / len(rates):.1f}%" of a non-empty list of rates, in tenths
format_mean(rates) ==
    LET I == 1..Len(rates)
        D == Product([n \in I |-> rates[n][2]], I)
        num == SumOver([n \in I |-> rates[n][1] * (D \div rates[n][2])], I)
    IN RoundDiv(num * 1000, D * Len(rates))

\* The rates the age classes have for the season at position i, by_season being
\* pregnancy_rates_by_season_and_age read per row
SeasonRatesBySeason(rows, seasons, i) ==
    LET with == SelectSeq(rows, LAMBDA r : notna(r.by_season[i]))
    IN [n \in 1..Len(with) |-> Val(with[n].by_season[i])]

\* The season_rates list the totals loop builds for the season at position i (from 1):
\* row['year_rates'][season_idx] of every row whose year_rates is long enough
season_rates_at(rows, seasons, i) ==
    LET with == SelectSeq(rows, LAMBDA r : i <= Len(r.year_rates))
    IN [n \in 1..Len(with) |-> with[n].year_rates[i]]

\* PregCheckRollingAverageReport.get: seasons, one row per age class, and the
\* AVERAGE row.  by_season keeps the rate of every displayed season (NaN where the
\* age class has none), which season_rates formats; year_rates holds the rates
\* that exist, without gaps.  The overall rolling average of the AVERAGE row is
\* floating-point arithmetic on the formatted strings and is left out.
rolling_average_report(cows, pregchecks) ==
    LET seasons == seasons_list(pregchecks)
        S == 1..Len(seasons)
        all_ages == {season - Val(by_key(cows, pregchecks, k)) :
                        <<season, k>> \in
                            {p \in {seasons[i] : i \in S} \X (1..Len(pregchecks)) :
                                /\ pregchecks[p[2]].breeding_season = Some(p[1])
                                /\ HasBirthYear(cows, pregchecks[p[2]])}}
        ages == SortedSeq(all_ages, {p \in all_ages \X all_ages : p[1] < p[2]})
        row(age) ==
            LET by_season == [i \in S |-> preg_rate(cows, pregchecks, seasons[i], age)]
                present == SelectSeq([i \in S |-> i], LAMBDA i : notna(by_season[i]))
                year_rates == [n \in 1..Len(present) |-> Val(by_season[present[n]])]
            IN [age          |-> age,
                by_season    |-> by_season,
                season_rates |-> [i \in S |-> IF notna(by_season[i])
                                             THEN Some(format_rate(Val(by_season[i])))
                                             ELSE NaN],
                year_rates   |-> year_rates,
                rolling_avg  |-> IF year_rates # <<>> THEN Some(format_mean(year_rates))
                                 ELSE NaN]
        rows == [n \in 1..Len(ages) |-> row(ages[n])]
        average(i) ==
            LET season_rates == season_rates_at(rows, seasons, i)
            IN IF season_rates # <<>> THEN Some(format_mean(season_rates)) ELSE NaN
    IN [seasons |-> seasons,
        rows    |-> rows,
        totals  |-> IF rows = <<>> THEN NaN
                    ELSE Some([season_rates |-> [i \in S |-> average(i)]])]

(* A herd with checks entered one at a time, and the two reports read at any   *)
(* moment.  The report's context is kept in result.                            *)

Cow(tag, birth_year) == [ear_tag_id |-> Val(tag), birth_year |-> birth_year, eid |-> NaN]

\* Two cows of different birth years and one whose birth year is not recorded
Herd == <<Cow(Tag7, Some(2021)), Cow(Tag8, Some(2020)), Cow(Tag7, NaN)>>

Check(cow, season, date, pregnant, recheck) ==
    [cow |-> cow, breeding_season |-> Some(season), check_date |-> date,
     comments |-> <<>>, is_pregnant |-> pregnant, recheck |-> recheck]

ReportSeasons == {2024, 2025}

FirstOpen == <<Some(1), Some(FALSE), FALSE>>
RecheckPregnant == <<Some(2), Some(TRUE), TRUE>>
RecheckOpen == <<Some(2), Some(FALSE), TRUE>>
UndatedPregnant == <<NaN, Some(TRUE), FALSE>>

\* First checks and rechecks, open and pregnant, dated and undated, of the cows
\* with a birth year; a check of the cow without one; a check of no cow
Checks ==
    {Check(Some(1), s, o[1], o[2], o[3]) :
        s \in ReportSeasons,
        o \in {FirstOpen, RecheckPregnant, RecheckOpen, UndatedPregnant}}
    \cup {Check(Some(2), 2024, o[1], o[2], o[3]) : o \in {FirstOpen, RecheckPregnant}}
    \cup {Check(Some(3), 2024, Some(1), NaN, TRUE),
          Check(NaN, 2024, Some(1), Some(TRUE), FALSE)}

InitReport ==
    /\ db = [cows |-> Herd, pregchecks |-> <<>>]
    /\ tx = View(db)
    /\ pc = "idle"
    /\ file = [kind |-> "xlsx", columns |-> RequiredSet, rows |-> <<>>]
    /\ dry_run = FALSE
    /\ df = <<>>
    /\ idx = 0
    /\ stats = reset_stats
    /\ result = NoExc
    /\ pre = db
    /\ trace = <<>>
    /\ writes = 0
    /\ seen = NaN
    /\ InitSite

\* PregCheck.objects.create(**data) in autocommit
CreatePregCheck(data) ==
    /\ Len(db.pregchecks) < MaxChecks
    /\ db' = Tables(pregcheck_create(View(db), data).tx)
    /\ tx' = View(db')
    /\ pc' = "idle"
    /\ result' = NoExc
    /\ UNCHANGED <<file, dry_run, df, idx, stats, pre, trace, writes, seen>>
    /\ UNCHANGED site

\* GET report-5 with ?breeding_season=season
ReportFive(season) ==
    /\ pc' = "report-5"
    /\ result' = report_five(db.cows, db.pregchecks, season)
    /\ UNCHANGED <<db, tx, file, dry_run, df, idx, stats, pre, trace, writes, seen>>
    /\ UNCHANGED site

\* GET rolling-average-report
RollingAverageReport ==
    /\ pc' = "rolling-average-report"
    /\ result' = rolling_average_report(db.cows, db.pregchecks)
    /\ UNCHANGED <<db, tx, file, dry_run, df, idx, stats, pre, trace, writes, seen>>
    /\ UNCHANGED site

NextReport ==
    \/ \E data \in Checks : CreatePregCheck(data)
    \/ \E season \in ReportSeasons : ReportFive(season)
    \/ RollingAverageReport

SpecReport == InitReport /\ [][NextReport]_vars

-----------------------------------------------------------------------------
(* Claims about the reports                                                    *)

\* The checks of cow c in the season, as ids
ChecksOf(c, season) ==
    {k \in season_pregchecks(db.pregchecks, season) : db.pregchecks[k].cow = Some(c)}

\* The cows of a birth year that were checked in the season
CheckedCows(birth_year, season) ==
    {c \in 1..Len(db.cows) : db.cows[c].birth_year = birth_year /\ ChecksOf(c, season) # {}}

HasPregnantRecheck(c, season) ==
    \E k \in ChecksOf(c, season) :
        db.pregchecks[k].recheck /\ db.pregchecks[k].is_pregnant = Some(TRUE)

BirthYearRows == {n \in 1..Len(result.rows) : notna(result.rows[n].cow_birth_year)}

\* C23: in Report Five the preg_recheck_count of a birth-year row is the number
\* of distinct cows of that birth year with at least one pregnant recheck in the
\* selected season (several pregnant rechecks count once, open rechecks do not
\* count), and the total is the sum of the rows.
C23_RecheckCountIsPregnantRechecks ==
    pc = "report-5" =>
        /\ \A n \in BirthYearRows :
            result.rows[n].preg_recheck_count =
                Cardinality({c \in CheckedCows(result.rows[n].cow_birth_year,
                                               result.breeding_season) :
                                HasPregnantRecheck(c, result.breeding_season)})
        /\ notna(result.totals) =>
            Val(result.totals).preg_recheck_count =
                SumOver([n \in 1..Len(result.rows) |-> result.rows[n].preg_recheck_count],
                        1..Len(result.rows))

\* Earliest check_date, ties broken by creation time, among dated checks
EarliestCheck(c, season) ==
    CHOOSE k \in ChecksOf(c, season) :
        \A l \in ChecksOf(c, season) \ {k} :
            \/ Val(db.pregchecks[k].check_date) < Val(db.pregchecks[l].check_date)
            \/ /\ db.pregchecks[k].check_date = db.pregchecks[l].check_date
               /\ k < l

AllDated(birth_year, season) ==
    \A c \in CheckedCows(birth_year, season) :
        \A k \in ChecksOf(c, season) : notna(db.pregchecks[k].check_date)

C26_AverageRowPerSeason ==
    (pc = "rolling-average-report" /\ notna(result.totals)) =>
        \A i \in 1..Len(result.seasons) :
            LET rates == SeasonRatesBySeason(result.rows, result.seasons, i)
            IN Val(result.totals).season_rates[i] =
                IF rates # <<>> THEN Some(format_mean(rates)) ELSE NaN

-----------------------------------------------------------------------------
(* replace_current_database of database_management/views.py.  A file is a cell *)
(* holding its content, NaN when the file does not exist.  A step of the call  *)
(* succeeds or raises; pre is the current database file as the call found it,  *)
(* trace the steps the call has entered, result its return value and messages. *)

MaxUploads == 2

\* What a file can hold once a copy into it has raised: the copy may fail before
\* the destination is opened, after it was opened for writing and cut short, or
\* after the data was written (copy2 copies the metadata last)
CopyRaised(src, dst) == {dst, {"truncated"}, src}

\* call_command('migrate') on a database file: the schema may already be current
Migrated(database) == {database, {"migrated"}}

\* call_command('migrate') raising: before or after it changed the file
MigrateRaised(database) == {database, {"partly migrated"}}

ReplaceSteps == {"backup", "close", "move", "migrate", "restore"}

Enter(step) ==
    /\ pc' = step
    /\ trace' = Append(trace, step)

\* except Exception as e: messages.error(...), then the restore branch
Except(step) ==
    /\ pc' = "restore"
    /\ trace' = Append(trace, "restore")
    /\ result' = [result EXCEPT !.messages = Append(@, "Error replacing database")]

\* handle_database_upload, lines 157-181: the upload is saved to a temporary file
\* and validated, then replace_current_database(temp_path) is called; backup_path
\* is a new, timestamped name
ReplaceCurrentDatabase ==
    /\ pc \in {"idle", "replaced"}
    /\ writes < MaxUploads
    /\ fs' = [fs EXCEPT !.temp = {"new"}, !.backup = NaN]
    /\ pre' = fs.current
    /\ pc' = "backup"
    /\ trace' = <<"backup">>
    /\ result' = [returned |-> NaN, messages |-> <<>>]
    /\ writes' = writes + 1
    /\ UNCHANGED <<db, tx, file, dry_run, df, idx, stats, seen,
                   current_breeding_season, objects>>

\* shutil.copy2(current_db_path, backup_path), line 231
Backup(ok) ==
    /\ pc = "backup"
    /\ IF ok
       THEN /\ fs' = [fs EXCEPT !.backup = fs.current]
            /\ Enter("close")
            /\ result' = result
       ELSE /\ \E left \in CopyRaised(fs.current, fs.backup) :
                    fs' = [fs EXCEPT !.backup = left]
            /\ Except("backup")
    /\ UNCHANGED <<herd, current_breeding_season, objects>>

\* connection.close(), line 234
Close(ok) ==
    /\ pc = "close"
    /\ IF ok
       THEN Enter("move") /\ result' = result
       ELSE Except("close")
    /\ UNCHANGED <<herd, fs, current_breeding_season, objects>>

\* shutil.move(temp_path, current_db_path), line 237: a rename, or across file
\* systems a copy followed by the removal of the source
Move(ok) ==
    /\ pc = "move"
    /\ IF ok
       THEN /\ fs' = [fs EXCEPT !.current = fs.temp, !.temp = NaN]
            /\ Enter("migrate")
            /\ result' = result
       ELSE /\ \E left \in CopyRaised(fs.temp, fs.current) :
                    fs' = [fs EXCEPT !.current = left]
            /\ Except("move")
    /\ UNCHANGED <<herd, current_breeding_season, objects>>

\* call_command('migrate', verbosity=0), lines 240-246, and return True
Migrate(ok) ==
    /\ pc = "migrate"
    /\ IF ok
       THEN /\ \E after \in Migrated(fs.current) : fs' = [fs EXCEPT !.current = after]
            /\ pc' = "replaced"
            /\ trace' = trace
            /\ result' = [returned |-> Some(TRUE),
                          messages |-> Append(result.messages, "Backup saved as")]
       ELSE /\ \E after \in MigrateRaised(fs.current) :
                    fs' = [fs EXCEPT !.current = after]
            /\ Except("migrate")
    /\ UNCHANGED <<herd, current_breeding_season, objects>>

\* Lines 253-262: if the backup file exists, copy it over the current database,
\* reporting a failed copy; return False
Restore(ok) ==
    /\ pc = "restore"
    /\ IF ~notna(fs.backup)
       THEN /\ fs' = fs
            /\ result' = [result EXCEPT !.returned = Some(FALSE)]
       ELSE IF ok
       THEN /\ fs' = [fs EXCEPT !.current = fs.backup]
            /\ result' = [result EXCEPT !.returned = Some(FALSE)]
       ELSE /\ \E left \in CopyRaised(fs.backup, fs.current) :
                    fs' = [fs EXCEPT !.current = left]
            /\ result' = [returned |-> Some(FALSE),
                          messages |-> Append(result.messages, "Failed to restore backup")]
    /\ pc' = "replaced"
    /\ trace' = trace
    /\ UNCHANGED <<herd, current_breeding_season, objects>>

NextReplace ==
    \/ ReplaceCurrentDatabase
    \/ \E ok \in BOOLEAN : Backup(ok)
    \/ \E ok \in BOOLEAN : Close(ok)
    \/ \E ok \in BOOLEAN : Move(ok)
    \/ \E ok \in BOOLEAN : Migrate(ok)
    \/ \E ok \in BOOLEAN : Restore(ok)

SpecReplace == Init /\ [][NextReplace]_vars

\* C25: replace_current_database copies the current database to the backup
\* before the current file is replaced; when a later step fails it returns False
\* with the current file restored from that backup, so after a False return the
\* current database holds what it held before the call; it returns True only
\* when backup, close, move and migrate all succeeded, in that order.
C25_FalseMeansRestored ==
    /\ (pc \in ReplaceSteps /\ \E n \in 1..Len(trace) : trace[n] = "move") =>
            fs.backup = pre
    /\ pc = "replaced" =>
        /\ result.returned = Some(FALSE) => fs.current = pre
        /\ result.returned = Some(TRUE) => trace = <<"backup", "close", "move", "migrate">>

-----------------------------------------------------------------------------
(* The web upload of database_management/views.py: handle_excel_upload and     *)
(* import_cow_pregcheck_records.  Every ORM call runs in autocommit, so db is  *)
(* written row by row; result collects the errors list and the final message.  *)

\* str(value).strip(): an empty cell reads as the text 'nan'
str_strip(c) == IF notna(c) THEN strip(Val(c)) ELSE <<"nan">>

\* validate_excel_columns, lines 101-108: the same eight columns, in order
validate_excel_columns(columns) ==
    SelectSeq(REQUIRED_COLUMNS, LAMBDA c : c \notin columns)

\* The part of the loop body before the ORM calls, lines 116-129: the exception
\* or error raised for the row, "" when there is none.  The rows have a
\* check_date cell; bool() of an empty cell or of a non-empty text is True.
record_error(row) ==
    LET ear_tag_id == str_strip(row.ear_tag_id)
        eid == IF notna(row.eid) THEN strip(Val(row.eid)) ELSE <<>>
        no_cow_id == ear_tag_id = <<>> /\ eid = <<>>
    IN IF ~notna(row.birth_year) THEN "ValueError"
       ELSE IF ~no_cow_id /\ Val(row.birth_year) = 0 THEN "birth_year is required"
       ELSE IF ~notna(row.breeding_season) THEN "ValueError"
       ELSE IF ~Parseable(Val(row.check_date)) THEN "DateParseError"
       ELSE ""

\* cow_id_params, lines 134-142: the lookup, without an empty ear_tag_id or eid
cow_id_params(row) ==
    [ear_tag_id |-> str_strip(row.ear_tag_id),
     birth_year |-> row.birth_year,
     eid        |-> IF notna(row.eid) /\ strip(Val(row.eid)) # <<>>
                    THEN Some(strip(Val(row.eid))) ELSE NaN]

cow_id_fields(row) ==
    {"birth_year"}
        \cup (IF cow_id_params(row).ear_tag_id # <<>> THEN {"ear_tag_id"} ELSE {})
        \cup (IF notna(cow_id_params(row).eid) THEN {"eid"} ELSE {})

\* The PregCheck of lines 145-152
record_pregcheck(row, cow) ==
    [cow             |-> cow,
     breeding_season |-> row.breeding_season,
     check_date      |-> Some(to_date(Val(row.check_date))),
     comments        |-> IF notna(row.comments) THEN strip(Val(row.comments)) ELSE <<>>,
     is_pregnant     |-> Some(~notna(row.is_pregnant) \/ Val(row.is_pregnant) # <<>>),
     recheck         |-> IF notna(row.recheck) THEN Val(row.recheck) ELSE FALSE]

\* One iteration of the loop of import_cow_pregcheck_records, lines 114-154, on
\* the row at dataframe index i (0-based): the database and the errors after it
import_record(database, errors, i, row) ==
    LET failed(exc) == Append(errors, [row |-> i + 1, exc |-> exc])
        g == IF cow_id_fields(row) = {"birth_year"}
             THEN [tx |-> View(database), cow |-> NaN, exc |-> ""]
             ELSE get_or_create(View(database), cow_id_fields(row), cow_id_params(row))
        c == pregcheck_create(g.tx, record_pregcheck(row, g.cow))
    IN IF record_error(row) # ""
       THEN [db |-> database, errors |-> failed(record_error(row))]
       ELSE IF g.exc # ""
       THEN [db |-> Tables(g.tx), errors |-> failed(g.exc)]
       ELSE [db |-> Tables(c.tx), errors |-> errors]

\* handle_excel_upload, lines 61-79: read the file and check its columns
HandleExcelUpload(f) ==
    /\ pc \in {"idle", "uploaded"}
    /\ Len(f.rows) <= MaxRows
    /\ Len(db.pregchecks) + Len(f.rows) <= MaxStore
    /\ file' = f
    /\ pre' = db
    /\ idx' = 0
    /\ IF validate_excel_columns(f.columns) # <<>>
       THEN /\ df' = <<>>
            /\ pc' = "uploaded"
            /\ result' = [errors |-> <<>>, message |-> "Missing columns"]
       ELSE /\ df' = f.rows
            /\ pc' = "import_cow_pregcheck_records"
            /\ result' = [errors |-> <<>>, message |-> ""]
    /\ UNCHANGED <<db, tx, dry_run, stats, trace, writes, seen, site>>

\* import_cow_pregcheck_records, lines 114-154: the next row
ImportRecord ==
    /\ pc = "import_cow_pregcheck_records"
    /\ idx < Len(df)
    /\ LET s == import_record(db, result.errors, idx, df[idx + 1])
       IN /\ db' = s.db
          /\ result' = [result EXCEPT !.errors = s.errors]
    /\ tx' = View(db')
    /\ idx' = idx + 1
    /\ UNCHANGED <<pc, file, dry_run, df, stats, pre, trace, writes, seen, site>>

FinishUploadRollsBack ==
    /\ pc = "import_cow_pregcheck_records"
    /\ idx = Len(df)
    /\ pc' = "uploaded"
    /\ result' = [result EXCEPT !.message = IF result.errors # <<>>
                                            THEN "Some rows failed to import"
                                            ELSE "Excel/CSV data imported successfully."]
    /\ db' = IF result.errors # <<>> THEN pre ELSE db
    /\ tx' = View(db')
    /\ UNCHANGED <<file, dry_run, df, idx, stats, pre, trace, writes, seen, site>>

\* Lines 80-86: the errors are returned and reported in one message
FinishUpload ==
    /\ pc = "import_cow_pregcheck_records"
    /\ idx = Len(df)
    /\ pc' = "uploaded"
    /\ result' = [result EXCEPT !.message = IF result.errors # <<>>
                                            THEN "Some rows failed to import"
                                            ELSE "Excel/CSV data imported successfully."]
    /\ UNCHANGED <<db, tx, file, dry_run, df, idx, stats, pre, trace, writes, seen, site>>

TagBlank == Some(Txt1(" "))

\* Rows that import, rows that fail before anything is written, and a row that
\* fails in get_or_create when its eid is already another cow's
UploadRows ==
    { Row(Tag7, Born, EidA, Season, Day1, CodeP, NaN),
      Row(Tag7, Born, NaN, Season, Day2, CodeO, Some(TRUE)),
      Row(Tag8, Born, EidA, Season, Day1, CodeP, NaN),
      Row(TagBlank, Born, NaN, Season, Day1, CodeP, NaN),
      Row(NaN, Born, EidBlank, Season, Day2, NaN, NaN),
      Row(Tag8, NaN, NaN, Season, Day1, CodeP, NaN),
      Row(Tag8, Some(0), NaN, Season, Day1, CodeP, NaN),
      Row(Tag7, Born, NaN, NaN, Day1, CodeP, NaN),
      Row(Tag8, Born, NaN, Season, Some(Txt1("X")), CodeP, NaN) }

UploadFiles ==
    {Workbook(rows) : rows \in SeqsUpTo(UploadRows, MaxRows)}
        \cup {[kind |-> "csv", columns |-> RequiredSet \ {"eid"},
               rows |-> <<Without(Row(Tag7, Born, EidA, Season, Day1, CodeP, NaN), {"eid"})>>]}

NextUpload ==
    \/ \E f \in UploadFiles : HandleExcelUpload(f)
    \/ ImportRecord
    \/ FinishUpload

SpecUpload == Init /\ [][NextUpload]_vars

\* The dataframe rows of the finished upload for which no error was recorded
Imported == {i \in 1..Len(df) : \A n \in 1..Len(result.errors) : result.errors[n].row # i}

\* check is the check of dataframe row i: its cow, if the row names one, carries
\* the row's identifiers
CheckOfRow(check, i) ==
    /\ check.breeding_season = df[i].breeding_season
    /\ check.check_date = Some(to_date(Val(df[i].check_date)))
    /\ IF notna(check.cow)
       THEN /\ \A field \in cow_id_fields(df[i]) :
                    db.cows[Val(check.cow)][field] = cow_id_params(df[i])[field]
       ELSE cow_id_fields(df[i]) = {"birth_year"}

\* C28: the web upload writes row by row with no enclosing transaction: after a
\* call that returns a non-empty error list, every row that did not error is in
\* the store (its cow found or created, its check created), the rows before it
\* included, so the store holds a partial import.
C28_UploadKeepsGoodRows ==
    (pc = "uploaded" /\ result.errors # <<>>) =>
        /\ Len(db.pregchecks) = Len(pre.pregchecks) + Cardinality(Imported)
        /\ \A i \in Imported :
            LET k == Len(pre.pregchecks) + Cardinality({j \in Imported : j <= i})
            IN CheckOfRow(db.pregchecks[k], i)
        /\ \A k \in 1..Len(pre.pregchecks) : db.pregchecks[k] = pre.pregchecks[k]

\* A two-row file with one bad row has left the good row's cow and check behind
C28_Witness ==
    /\ pc = "uploaded"
    /\ Len(df) = 2
    /\ Len(result.errors) = 1
    /\ Cardinality(Imported) = 1
    /\ Len(db.pregchecks) = Len(pre.pregchecks) + 1
    /\ Len(db.cows) = Len(pre.cows) + 1

-----------------------------------------------------------------------------
(* SingletonModel and CurrentBreedingSeason of preg_check/models.py.  The      *)
(* table is the set of its rows; an instance is a record of its pk and its     *)
(* breeding_season, NaN for None.  pc names the last call and result what it   *)
(* raised, on which instance, and the pk that instance had.                    *)

MaxObjects == 2

\* datetime.now().year at the moment of a load()
ClockYears == {2025, 2026}

SeasonValues == {2024, 2025}

SeasonRow(pk, breeding_season) == [pk |-> pk, breeding_season |-> breeding_season]

Instance(pk, breeding_season) == [pk |-> pk, breeding_season |-> breeding_season]

SaveAtOwnPk(table, obj) ==
    LET pk == IF notna(obj.pk) THEN Val(obj.pk)
              ELSE 1 + Cardinality(table)
    IN IF ~notna(obj.breeding_season)
       THEN [table |-> table, obj |-> obj, exc |-> "IntegrityError"]
       ELSE [table |-> {r \in table : r.pk # pk}
                          \cup {SeasonRow(pk, Val(obj.breeding_season))},
             obj |-> [obj EXCEPT !.pk = Some(pk)], exc |-> ""]

\* SingletonModel.save, lines 9-11: self.pk = 1, then Model.save, which updates
\* the row of that pk and inserts it when there is none; breeding_season is NOT
\* NULL, so a None is refused and nothing is written
save(table, obj) ==
    IF ~notna(obj.breeding_season)
    THEN [table |-> table, obj |-> [obj EXCEPT !.pk = Some(1)], exc |-> "IntegrityError"]
    ELSE [table |-> {r \in table : r.pk # 1} \cup {SeasonRow(1, Val(obj.breeding_season))},
          obj |-> [obj EXCEPT !.pk = Some(1)], exc |-> ""]

\* SingletonModel.delete, lines 13-14: pass
delete(table, obj) == table

\* CurrentBreedingSeason.load, lines 31-38: get_or_create(pk=1, defaults={...}),
\* whose create goes through save
load(table, year) ==
    LET found == {r \in table : r.pk = 1}
        row == CHOOSE r \in found : TRUE
        created == save(table, Instance(Some(1), Some(year)))
    IN IF found # {}
       THEN [table |-> table, obj |-> Instance(Some(row.pk), Some(row.breeding_season))]
       ELSE [table |-> created.table, obj |-> created.obj]

Returned(call, value) ==
    /\ pc' = call
    /\ result' = value
    /\ UNCHANGED <<herd, trace, fs>>

\* CurrentBreedingSeason(pk=..., breeding_season=...): an instance in memory
New(pk, breeding_season) ==
    /\ Len(objects) < MaxObjects
    /\ objects' = Append(objects, Instance(pk, breeding_season))
    /\ current_breeding_season' = current_breeding_season
    /\ Returned("new", Len(objects'))

\* obj.save() on the instance at position n
Save(n) ==
    /\ n \in 1..Len(objects)
    /\ LET s == save(current_breeding_season, objects[n])
       IN /\ current_breeding_season' = s.table
          /\ objects' = [objects EXCEPT ![n] = s.obj]
          /\ Returned("save", [on |-> n, had |-> objects[n].pk, exc |-> s.exc])

\* obj.delete() on the instance at position n
Delete(n) ==
    /\ n \in 1..Len(objects)
    /\ current_breeding_season' = delete(current_breeding_season, objects[n])
    /\ objects' = objects
    /\ Returned("delete", [on |-> n, had |-> objects[n].pk, exc |-> ""])

\* CurrentBreedingSeason.load(); the oldest instance is dropped when memory is full
Load(year) ==
    /\ LET l == load(current_breeding_season, year)
       IN /\ current_breeding_season' = l.table
          /\ objects' = IF Len(objects) < MaxObjects THEN Append(objects, l.obj)
                        ELSE Append(Tail(objects), l.obj)
    /\ Returned("load", Len(objects'))

\* UpdateCurrentBreedingSeasonView.post, lines 186-196: load, assign, save; a
\* body without a usable breeding_season raises before load and is answered
\* with an error
UpdateCurrentBreedingSeason(breeding_season, year) ==
    /\ IF ~notna(breeding_season)
       THEN /\ current_breeding_season' = current_breeding_season
            /\ Returned("post", [status |-> "error"])
       ELSE LET l == load(current_breeding_season, year)
                s == save(l.table, [l.obj EXCEPT !.breeding_season = breeding_season])
            IN /\ current_breeding_season' = s.table
               /\ Returned("post", [status |-> "success"])
    /\ objects' = objects

NextSeason ==
    \/ \E pk \in {NaN, Some(1), Some(2)}, s \in {NaN} \cup {Some(v) : v \in SeasonValues} :
            New(pk, s)
    \/ \E n \in 1..MaxObjects : Save(n)
    \/ \E n \in 1..MaxObjects : Delete(n)
    \/ \E year \in ClockYears : Load(year)
    \/ \E s \in {NaN} \cup {Some(v) : v \in SeasonValues}, year \in ClockYears :
            UpdateCurrentBreedingSeason(s, year)

SpecSeason == Init /\ [][NextSeason]_vars

\* C30: whatever save(), delete() and load() calls are made on
\* CurrentBreedingSeason instances, the table holds at most one row and its
\* primary key is 1: save() writes to pk 1 whatever pk the instance had,
\* delete() removes nothing, and load() creates the row only when it is absent
\* and otherwise leaves its breeding_season unchanged.
C30_SingleRowAtPkOne ==
    /\ [](Cardinality(current_breeding_season) <= 1
            /\ \A r \in current_breeding_season : r.pk = 1)
    /\ [][/\ (pc' = "save" /\ result'.exc = "") =>
                /\ current_breeding_season' =
                        {SeasonRow(1, Val(objects[result'.on].breeding_season))}
                /\ objects'[result'.on].pk = Some(1)
          /\ (pc' = "save" /\ result'.exc # "") =>
                current_breeding_season' = current_breeding_season
          /\ pc' = "delete" => current_breeding_season' = current_breeding_season
          /\ pc' = "load" =>
                IF current_breeding_season # {}
                THEN current_breeding_season' = current_breeding_season
                ELSE \E year \in ClockYears :
                        current_breeding_season' = {SeasonRow(1, year)}]_vars

\* An instance that had pk 2 has been saved while the row existed: the table
\* holds the one row, at pk 1, with the instance's season, and the instance has pk 1
C30_Witness ==
    /\ pc = "save"
    /\ result.exc = ""
    /\ result.had = Some(2)
    /\ objects[result.on].pk = Some(1)
    /\ current_breeding_season = {SeasonRow(1, Val(objects[result.on].breeding_season))}

====
